---- MODULE Spec2Model ----
(***************************************************************************)
(* Model of the presentation orchestration engine of the art kiosk server  *)
(* (src/app.py): the video orchestrator (external mpv player process,      *)
(* auto-transition timer, start/stop requests and their background         *)
(* threads) and the remote command channel (single-slot pull mailbox).     *)
(*                                                                         *)
(* The server runs on the threaded werkzeug server (socketio.run with      *)
(* allow_unsafe_werkzeug, app.py:2863); request handlers, the background   *)
(* threads they start (threading.Thread) and timer callbacks               *)
(* (threading.Timer) run concurrently on module-level globals without any  *)
(* lock.  Every statement that reads or writes a global, kills or spawns   *)
(* the player is therefore a separate step of its thread.                  *)
(***************************************************************************)
EXTENDS Integers, Sequences, FiniteSets, TLC

\* Python's None for string-valued globals and inputs.
None == "None"

\* video_transition_timer = None (timer handles are the ids 1..MaxStarts).
NoTimer == 0

\* ---------------------------------------------------------------- bounds
\* Number of start requests (execute-mpv, legacy play, generate-thumbnail).
MaxStarts == 2
\* Number of stop requests.
MaxStops == 1

Starts == 1..MaxStarts
Stops == 1..MaxStops

\* Video ids registered in settings['video_urls'].
Videos == {"v1", "v2"}

\* Answers of GET /api/images?enabled_only=true that execute_mpv may receive:
\* the names of the enabled items in display order.
Listings == {<<"img1", "v1", "v2">>}

\* Targets a stop request may carry in 'jump_to' (None: no target).
JumpTargets == {None, "img1"}

\* max_retries of the thumbnail capture loop.
max_retries == 2

\* Number of POST /api/control/send requests and of GET /api/control/poll requests.
MaxSends == 2
MaxPolls == 2
\* Seconds the clock may advance.
MaxTicks == 6
\* Seconds the clock may advance while requests race (SpecMailbox): the races
\* do not depend on how much time passes.
MaxRaceTicks == 1

Sends == 1..MaxSends
Polls == 1..MaxPolls

\* poll_command delivers a command less than 5 seconds old.
TTL == 5

\* The clock at server start: time.time() is far beyond TTL seconds after the
\* epoch, so the initial command_timestamp = 0 is older than any TTL.
StartTime == TTL
MaxTime == StartTime + MaxTicks

\* Request bodies of POST /api/control/send.
CommandKinds == {"next", "jump", "bogus"}
ImageNames == {None, "img1"}

\* ------------------------------------------------ configuration and listing
\* The distinguished theme and atmosphere name.
AllImages == "All Images"

\* Theme and atmosphere names requests may use ('All Images' and 'Extras'
\* always exist, get_settings adds them).
ThemeNames == {AllImages, "Extras", "T1"}
AtmosphereNames == {AllImages, "A1", "A2"}

\* sorted(UPLOAD_FOLDER.iterdir()): the image files, by name.
Images == <<"img1", "img2">>
\* UPLOAD_FOLDER.iterdir() without sorting: the order is the file system's.
DirOrders == {<<"img1", "img2">>, <<"img2", "img1">>}
\* settings['video_urls']: the registered videos, in registration order.
video_urls == <<"v1", "v2">>

\* The keys of settings['day_times'].
TimeIds == {"1", "2", "3", "4", "5", "6", "7", "8", "9", "10", "11", "12"}

\* Values random.random() may return, each standing for a different sequence
\* of generator outputs once the generator is seeded with it; they cover
\* every permutation of a list of up to 3 items.
Seeds == 0..7
\* The generator state after random.seed() without argument (OS entropy):
\* what it produces next is not determined by the program.
Entropy == -1

\* max_attempts of the avoid-first search of reshuffle_images.
max_attempts == 100
\* Number of POST /api/kiosk/reshuffle requests.
MaxReshuffles == 1
\* Number of GET /api/images requests.
MaxLists == 2
\* Number of configuration requests (themes, atmospheres, day scheduling).
MaxConfigOps == 2

VARIABLES
    \* ---- video orchestrator (module globals of app.py) ----
    procs,                  \* live mpv processes (ids of the threads that spawned them)
    video_transition_timer, \* the global timer handle (NoTimer = None)
    timers,                 \* state of each threading.Timer object
    current_video_id,       \* global current_video_id
    persisted_video_id,     \* settings['current_video_id'] in settings.json
    video_next_item,        \* global video_next_item
    thumbs,                 \* video ids whose thumbnail file exists
    starts,                 \* start requests and their background threads
    stops,                  \* stop requests and their background threads
    \* ---- history of the video orchestrator ----
    lastStart,              \* id of the last accepted start request (0: none)
    superseded,             \* timers that were pending when a later start was accepted
    stopLast,               \* a stop was accepted and no start was accepted after it
    entryLog,               \* per start request: its entry actions, in the order performed
    \* ---- command channel (module globals of app.py) ----
    current_command,        \* the single mailbox slot
    command_timestamp,      \* time.time() of the last enqueue
    now,                    \* the clock, in seconds
    remote_emits,           \* send requests that broadcast 'remote_command'
    sends,                  \* POST /api/control/send requests
    polls,                  \* GET /api/control/poll requests
    \* ---- configuration (settings.json) and its environment ----
    settings,               \* the settings document
    rng,                    \* state of the global generator of module random
    draws,                  \* parity of the number of random.random() calls made so far
    random_value,           \* the value the last random.random() call returned
    hour,                   \* hour of the day (real or test_mode['mock_time'])
    \* ---- configuration and listing requests ----
    lists,                  \* GET /api/images requests and their answers
    reshuffle,              \* the POST /api/kiosk/reshuffle request being served
    reshuffles,             \* number of reshuffle requests taken up
    interval_served,        \* 'interval' of the last GET /api/settings (0: none yet)
    cfgOp,                  \* the last configuration request and its answer
    \* ---- what the orchestrator gave to the outside ----
    timer_interval,         \* per start request: interval_seconds of the Timer it created (0: none)
    video_playing,          \* start requests whose thread emitted 'video_playing'
    captures,               \* per start request: number of scrot runs of its capture loop
    thumbnail_generated,    \* per start request: number of 'thumbnail_generated' it emitted
    show_kiosk,             \* the 'show_kiosk' events emitted, in order
    day_status,             \* the last answer that carried 'current_time_period'
    \* ---- further requests on the orchestrator's globals ----
    playback_status,        \* the GET /api/videos/playback-status request and its answer
    current_kiosk_image,    \* global current_kiosk_image
    kiosk_state,            \* the last answer of GET /api/kiosk/current-image
    loaded                  \* per writer: the settings document its get_settings() returned

videoVars == <<procs, video_transition_timer, timers, current_video_id,
               persisted_video_id, video_next_item, thumbs, starts, stops,
               lastStart, superseded, stopLast, entryLog>>

mailVars == <<current_command, command_timestamp, now, remote_emits, sends, polls>>

cfgVars == <<settings, rng, draws, random_value, hour, lists, reshuffle, reshuffles,
             interval_served, cfgOp>>

requestVars == <<playback_status, current_kiosk_image, kiosk_state, loaded>>

signalVars == <<timer_interval, video_playing, captures, thumbnail_generated,
                show_kiosk, day_status, requestVars>>

vars == <<videoVars, mailVars, cfgVars, signalVars>>

\* ------------------------------------------------------------ pure helpers

\* Index of the first item of images named video_id (0: not found).
RECURSIVE FindIndex(_, _, _)
FindIndex(images, video_id, i) ==
    IF i > Len(images) THEN 0
    ELSE IF images[i] = video_id THEN i
    ELSE FindIndex(images, video_id, i + 1)

\* execute_mpv: the item following the video in the served list, wrapping
\* around; None when the video is not listed or the list has one item.
NextItemAfter(images, video_id) ==
    LET video_index == FindIndex(images, video_id, 1) IN
    IF video_index # 0 /\ Len(images) > 1
    THEN images[(video_index % Len(images)) + 1]
    ELSE None

\* threading.Timer.cancel(): sets the timer's finished event.  A timer not yet
\* started will return at once when started; a waiting timer never runs its
\* callback; a timer whose callback already runs (or ran) is not affected.
CancelTimer(st) ==
    CASE st = "created" -> "precancelled"
      [] st = "armed"   -> "cancelled"
      [] OTHER          -> st

\* threading.Thread.start(): a thread can be started once.
Startable(st) == st \in {"created", "precancelled"}

\* A timer is pending: started, neither fired nor cancelled.
Pending(t) == timers[t] = "armed"

\* ------------------------------------------- day scheduler and selection

\* The elements of a list.
Range(list) == {list[i] : i \in DOMAIN list}

\* Mutant of get_current_time_period: the upper ends of the blocks are
\* included.
get_current_time_period_closed(current_hour) ==
    IF 6 <= current_hour /\ current_hour <= 8 THEN "1"
    ELSE IF 8 <= current_hour /\ current_hour <= 10 THEN "2"
    ELSE IF 10 <= current_hour /\ current_hour <= 12 THEN "3"
    ELSE IF 12 <= current_hour /\ current_hour <= 14 THEN "4"
    ELSE IF 14 <= current_hour /\ current_hour <= 16 THEN "5"
    ELSE IF 16 <= current_hour /\ current_hour <= 18 THEN "6"
    ELSE IF 18 <= current_hour /\ current_hour <= 20 THEN "7"
    ELSE IF 20 <= current_hour /\ current_hour <= 22 THEN "8"
    ELSE IF 22 <= current_hour /\ current_hour <= 24 THEN "9"
    ELSE IF 0 <= current_hour /\ current_hour <= 2 THEN "10"
    ELSE IF 2 <= current_hour /\ current_hour <= 4 THEN "11"
    ELSE "12"

\* get_current_time_period: the slot of an hour of the day.
get_current_time_period(current_hour) ==
    IF 6 <= current_hour /\ current_hour < 8 THEN "1"
    ELSE IF 8 <= current_hour /\ current_hour < 10 THEN "2"
    ELSE IF 10 <= current_hour /\ current_hour < 12 THEN "3"
    ELSE IF 12 <= current_hour /\ current_hour < 14 THEN "4"
    ELSE IF 14 <= current_hour /\ current_hour < 16 THEN "5"
    ELSE IF 16 <= current_hour /\ current_hour < 18 THEN "6"
    ELSE IF 18 <= current_hour /\ current_hour < 20 THEN "7"
    ELSE IF 20 <= current_hour /\ current_hour < 22 THEN "8"
    ELSE IF 22 <= current_hour /\ current_hour < 24 THEN "9"
    ELSE IF 0 <= current_hour /\ current_hour < 2 THEN "10"
    ELSE IF 2 <= current_hour /\ current_hour < 4 THEN "11"
    ELSE "12"

\* get_active_atmospheres_for_time: mirror_map.get(time_period, time_period)
mirror_map(time_period) ==
    CASE time_period = "7"  -> "1"
      [] time_period = "8"  -> "2"
      [] time_period = "9"  -> "3"
      [] time_period = "10" -> "4"
      [] time_period = "11" -> "5"
      [] time_period = "12" -> "6"
      [] OTHER              -> time_period

\* get_active_atmospheres_for_time: the atmospheres of the mirror source of
\* the slot, ['All Images'] when none is assigned.
get_active_atmospheres_for_time(time_period, s) ==
    LET atmospheres == s.day_times[mirror_map(time_period)] IN
    IF atmospheres = <<>> THEN <<AllImages>> ELSE atmospheres

\* allowed_themes = None: no theme filter.
NoFilter == [filtered |-> FALSE, themes |-> {}]

\* Mutant of AllowedThemes: the 'All Images' atmosphere does not decide, the
\* active theme does.
AllowedThemesSkipAllImages(s, current_hour, enabled_only) ==
    IF ~enabled_only THEN NoFilter
    ELSE IF s.day_scheduling_enabled THEN
        LET time_atmospheres ==
                get_active_atmospheres_for_time(get_current_time_period(current_hour), s)
            allowed_themes ==
                UNION {Range(s.atmosphere_themes[time_atmospheres[i]]) :
                          i \in DOMAIN time_atmospheres}
        IN IF allowed_themes = {} THEN NoFilter
           ELSE [filtered |-> TRUE, themes |-> allowed_themes]
    ELSE IF s.active_atmosphere # None /\ s.active_atmosphere # AllImages THEN
        LET atm_themes == s.atmosphere_themes[s.active_atmosphere] IN
        IF atm_themes = <<>> THEN NoFilter
        ELSE [filtered |-> TRUE, themes |-> Range(atm_themes)]
    ELSE IF s.active_theme # None /\ s.active_theme # AllImages THEN
        [filtered |-> TRUE, themes |-> {s.active_theme}]
    ELSE NoFilter

\* list_images: the themes the listing is filtered by.
AllowedThemes(s, current_hour, enabled_only) ==
    IF ~enabled_only THEN NoFilter
    ELSE IF s.day_scheduling_enabled THEN
        LET time_atmospheres ==
                get_active_atmospheres_for_time(get_current_time_period(current_hour), s)
            allowed_themes ==
                UNION {Range(s.atmosphere_themes[time_atmospheres[i]]) :
                          i \in DOMAIN time_atmospheres}
        IN IF allowed_themes = {} THEN NoFilter
           ELSE [filtered |-> TRUE, themes |-> allowed_themes]
    ELSE IF s.active_atmosphere # None THEN
        LET atm_themes == s.atmosphere_themes[s.active_atmosphere] IN
        IF s.active_atmosphere = AllImages \/ atm_themes = <<>> THEN NoFilter
        ELSE [filtered |-> TRUE, themes |-> Range(atm_themes)]
    ELSE IF s.active_theme # None /\ s.active_theme # AllImages THEN
        [filtered |-> TRUE, themes |-> {s.active_theme}]
    ELSE NoFilter

\* list_images: the items before shuffling, the image files sorted by name
\* and then the videos in registration order.
ListItems(s, current_hour, enabled_only) ==
    LET allowed == AllowedThemes(s, current_hour, enabled_only)
        KeepImage(name) ==
            /\ enabled_only => s.enabled_images[name]
            /\ allowed.filtered => Range(s.image_themes[name]) \cap allowed.themes # {}
        KeepVideo(video_id) ==
            /\ enabled_only => s.enabled_videos[video_id]
            /\ allowed.filtered => Range(s.video_themes[video_id]) \cap allowed.themes # {}
    IN SelectSeq(Images, KeepImage) \o SelectSeq(video_urls, KeepVideo)

\* reshuffle_images: the image list it tests candidate seeds on, in the
\* order the directory is read in.
ReshuffleItems(s, dir_order) ==
    LET allowed ==
            IF s.active_atmosphere # None
            THEN [filtered |-> TRUE, themes |-> Range(s.atmosphere_themes[s.active_atmosphere])]
            ELSE IF s.active_theme # None /\ s.active_theme # AllImages
            THEN [filtered |-> TRUE, themes |-> {s.active_theme}]
            ELSE NoFilter
        KeepImage(filename) ==
            /\ s.enabled_images[filename]
            /\ allowed.filtered => Range(s.image_themes[filename]) \cap allowed.themes # {}
    IN SelectSeq(dir_order, KeepImage)

\* Mutant of get_current_interval: the active theme is consulted before the
\* active atmosphere.
get_current_interval_theme_first(s, current_hour) ==
    LET time_atmospheres ==
            get_active_atmospheres_for_time(get_current_time_period(current_hour), s)
        first_atm == time_atmospheres[1]
    IN IF s.day_scheduling_enabled /\ s.atmospheres[first_atm] # 0
       THEN s.atmospheres[first_atm]
       ELSE IF s.active_theme # None /\ s.themes[s.active_theme] # 0
       THEN s.themes[s.active_theme]
       ELSE IF s.active_atmosphere # None /\ s.atmospheres[s.active_atmosphere] # 0
       THEN s.atmospheres[s.active_atmosphere]
       ELSE s.interval

\* get_current_interval: the interval the precedence rules resolve.
get_current_interval(s, current_hour) ==
    LET time_atmospheres ==
            get_active_atmospheres_for_time(get_current_time_period(current_hour), s)
        first_atm == time_atmospheres[1]
    IN IF s.day_scheduling_enabled /\ s.atmospheres[first_atm] # 0
       THEN s.atmospheres[first_atm]
       ELSE IF s.active_atmosphere # None /\ s.atmospheres[s.active_atmosphere] # 0
       THEN s.atmospheres[s.active_atmosphere]
       ELSE IF s.active_theme # None /\ s.themes[s.active_theme] # 0
       THEN s.themes[s.active_theme]
       ELSE s.interval

\* ------------------------------------------------------------ module random

\* The largest list random.shuffle is given: every image and video.
MaxItems == Len(Images) + Len(video_urls)

\* A generator state g stands for the sequence of outputs the generator
\* yields from it: output k is the k-th digit of g, in a mixed radix that
\* lets the states cover every permutation of MaxItems items.
RECURSIVE PlaceValue(_)
PlaceValue(k) == IF k <= 1 THEN 1 ELSE PlaceValue(k - 1) * (MaxItems - k + 2)

Output(g, k) == (g \div PlaceValue(k)) % (MaxItems - k + 1)

\* random.shuffle: j = randbelow(i + 1), taken from output k of the generator
\* (1-based position).
RandBelow(g, k, i) == (Output(g, k) % i) + 1

\* x[i], x[j] = x[j], x[i]
Swap(x, i, j) == [x EXCEPT ![i] = x[j], ![j] = x[i]]

\* random.shuffle(x) with the generator in state g: for i from the last
\* position down to the second, swap x[i] with x[randbelow(i + 1)]; each
\* randbelow consumes the next output.
RECURSIVE ShuffleFrom(_, _, _)
ShuffleFrom(x, g, i) ==
    IF i < 2 THEN x
    ELSE ShuffleFrom(Swap(x, i, RandBelow(g, Len(x) - i + 1, i)), g, i - 1)

Shuffle(x, g) == ShuffleFrom(x, g, Len(x))

\* The generator state after a shuffle or a draw used it.
Advance(g) == (g + 1) % Cardinality(Seeds)

\* The order GET /api/images?enabled_only=true serves for the stored shuffle_id
\* when no other request uses the generator meanwhile.
ServedOrder(s, current_hour) == Shuffle(ListItems(s, current_hour, TRUE), s.shuffle_id)

\* ------------------------------------------------------------------ Init

IdleStart == [pc |-> "idle", kind |-> "none", vid |-> None, att |-> 0]
IdleStop  == [pc |-> "idle", target |-> None]

\* current_command = None.  A pending command carries, besides the fields the
\* code stores, the id of the request that wrote it (history).
NoCommand == [command |-> None, image_name |-> None, id |-> 0]

\* A send request: its body, and as history the time it stamped (-1: not yet)
\* and the id of the pending command its write replaced (0: the slot was empty).
IdleSend == [pc |-> "idle", command |-> None, image_name |-> None,
             stamp |-> -1, replaced |-> 0]

\* A poll request: cmd is its local variable; as history saw is the id of the
\* command found pending, tread the clock it read, and misjudged tells that
\* the timestamp it compared with was not the one stamped for the command
\* pending at that moment.
IdlePoll == [pc |-> "idle", cmd |-> NoCommand, saw |-> 0, tread |-> -1,
             misjudged |-> FALSE]

\* The media items: image file names and video ids.
ItemNames == Range(Images) \cup Range(video_urls)

\* get_settings: the defaults, with the media library in place and tagged
\* (update_image_themes, update_video_themes).  A theme or atmosphere that
\* does not exist has interval 0; an atmosphere without an atmosphere_themes
\* entry reads as the empty list (atmosphere_themes.get(name, [])).
DefaultSettings ==
    [interval |-> 600,
     themes |-> [t \in ThemeNames |-> IF t \in {AllImages, "Extras"} THEN 3600 ELSE 0],
     image_themes |-> [i \in Range(Images) |-> IF i = "img1" THEN <<"T1">> ELSE <<"Extras">>],
     active_theme |-> AllImages,
     atmospheres |-> [a \in AtmosphereNames |-> IF a = AllImages THEN 3600 ELSE 0],
     atmosphere_themes |-> [a \in AtmosphereNames |-> <<>>],
     active_atmosphere |-> None,
     day_scheduling_enabled |-> FALSE,
     day_times |-> [t \in TimeIds |-> <<>>],
     shuffle_id |-> 0,
     video_themes |-> [v \in Range(video_urls) |-> IF v = "v1" THEN <<"T1">> ELSE <<>>],
     enabled_images |-> [i \in Range(Images) |-> TRUE],
     enabled_videos |-> [v \in Range(video_urls) |-> TRUE]]

\* A GET /api/images request: its query, the list it built and its answer.
\* seed is the shuffle_id it read.
IdleList == [pc |-> "idle", enabled_only |-> FALSE, items |-> <<>>, seed |-> 0,
             answer |-> <<>>]

\* The reshuffle request: its body, its locals (images, attempt,
\* new_shuffle_id, first_image) and its answer.
IdleReshuffle ==
    [pc |-> "idle", avoid_first |-> None, images |-> <<>>, attempt |-> 0,
     new_shuffle_id |-> 0, test_images |-> <<>>, warning |-> FALSE]

\* No configuration request was made yet.  count is the number of requests.
NoCfgOp ==
    [op |-> "none", status |-> 0, count |-> 0, theme_before |-> None,
     atmosphere_before |-> None]

\* The requests and their environment at server start.
InitRequests ==
    /\ rng = Entropy
    /\ draws = 0
    /\ random_value = 0
    /\ lists = [k \in 1..MaxLists |-> IdleList]
    /\ reshuffle = IdleReshuffle
    /\ reshuffles = 0
    /\ interval_served = 0
    /\ cfgOp = NoCfgOp

\* No answer carried 'current_time_period' yet.
NoDayStatus == [current_hour |-> 0, current_time_period |-> None]

\* No GET /api/videos/playback-status was made yet.  is_playing is the
\* handler's local; running is history: the videos whose player process ran
\* when the answer was built.
NoPlaybackStatus ==
    [pc |-> "idle", is_playing |-> FALSE, answered |-> FALSE, playing |-> FALSE,
     video_id |-> None, running |-> {}]

\* The threads that load, change and save the whole settings document for
\* the sake of current_video_id.
Writers == {"execute_mpv", "auto_transition", "stop_mpv_async"}

\* The orchestrator and the command channel at server start, with the
\* thumbnail files found in THUMBNAILS_FOLDER.
InitGlobals(thumbnail_files) ==
    /\ procs = {}
    /\ video_transition_timer = NoTimer
    /\ timers = [t \in Starts |-> "none"]
    /\ current_video_id = None
    /\ persisted_video_id = None
    /\ video_next_item = None
    /\ thumbs = thumbnail_files
    /\ starts = [r \in Starts |-> IdleStart]
    /\ stops = [s \in Stops |-> IdleStop]
    /\ lastStart = 0
    /\ superseded = {}
    /\ stopLast = FALSE
    /\ entryLog = [r \in Starts |-> <<>>]
    /\ current_command = NoCommand
    /\ command_timestamp = 0
    /\ now = StartTime
    /\ remote_emits = {}
    /\ sends = [n \in Sends |-> IdleSend]
    /\ polls = [q \in Polls |-> IdlePoll]
    /\ timer_interval = [r \in Starts |-> 0]
    /\ video_playing = {}
    /\ captures = [r \in Starts |-> 0]
    /\ thumbnail_generated = [r \in Starts |-> 0]
    /\ show_kiosk = <<>>
    /\ day_status = NoDayStatus
    /\ playback_status = NoPlaybackStatus
    /\ current_kiosk_image = None
    /\ kiosk_state = [current_image |-> None, current_video_id |-> None]
    /\ loaded = [w \in Writers |-> DefaultSettings]

\* Every video has its thumbnail.
InitOrchestrator == InitGlobals(Videos)

Init ==
    /\ InitOrchestrator
    /\ settings = DefaultSettings
    /\ hour = 7
    /\ InitRequests

\* ------------------------------------------------- start requests (handlers)

\* Request slots are used in order.
CanBegin(r) ==
    /\ starts[r].pc = "idle"
    /\ IF r = 1 THEN TRUE ELSE starts[r - 1].pc # "idle"

\* History kept when a start request is accepted.
Accept(r) ==
    /\ lastStart' = r
    /\ superseded' = superseded \cup {t \in Starts : Pending(t)}
    /\ stopLast' = FALSE

SetPc(r, pc) == [starts EXCEPT ![r].pc = pc]

\* POST /api/videos/execute-mpv: the handler up to thread.start().  The video
\* id and the next item are stored before the URL is checked.
ExecuteMpv(r, video_id, url, images) ==
    /\ CanBegin(r)
    /\ current_video_id' = video_id
    /\ persisted_video_id' = video_id
    /\ video_next_item' = NextItemAfter(images, video_id)
    /\ IF url = None
       THEN /\ starts' = [starts EXCEPT ![r] =
                   [pc |-> "rejected", kind |-> "execute", vid |-> video_id, att |-> 0]]
            /\ UNCHANGED <<lastStart, superseded, stopLast>>
       ELSE /\ starts' = [starts EXCEPT ![r] =
                   [pc |-> "loading", kind |-> "execute", vid |-> video_id, att |-> 0]]
            /\ Accept(r)
    /\ UNCHANGED <<procs, video_transition_timer, timers, thumbs, stops, entryLog>>
    /\ UNCHANGED <<mailVars, cfgVars, signalVars>>

\* POST /api/videos/<video_id>/play (legacy): starts its own launch thread
\* and touches no global.
PlayVideo(r, video_id) ==
    /\ CanBegin(r)
    /\ starts' = [starts EXCEPT ![r] =
           [pc |-> "loading", kind |-> "play", vid |-> video_id, att |-> 0]]
    /\ Accept(r)
    /\ UNCHANGED <<procs, video_transition_timer, timers, current_video_id,
                   persisted_video_id, video_next_item, thumbs, stops, entryLog>>
    /\ UNCHANGED <<mailVars, cfgVars, signalVars>>

\* POST /api/videos/<video_id>/generate-thumbnail: starts the capture thread.
GenerateThumbnail(r, video_id) ==
    /\ CanBegin(r)
    /\ starts' = [starts EXCEPT ![r] =
           [pc |-> "loading", kind |-> "thumbnail", vid |-> video_id, att |-> 0]]
    /\ Accept(r)
    /\ UNCHANGED <<procs, video_transition_timer, timers, current_video_id,
                   persisted_video_id, video_next_item, thumbs, stops, entryLog>>
    /\ UNCHANGED <<mailVars, cfgVars, signalVars>>

\* ------------------------------------------- start threads: loading, kill, spawn

\* STEP 1 of every launch thread: socketio.emit('show_loading').
ShowLoading(r) ==
    /\ starts[r].pc = "loading"
    /\ starts' = SetPc(r, "kill")
    /\ entryLog' = [entryLog EXCEPT ![r] = Append(@, "loading")]
    /\ UNCHANGED <<procs, video_transition_timer, timers, current_video_id,
                   persisted_video_id, video_next_item, thumbs, stops,
                   lastStart, superseded, stopLast>>
    /\ UNCHANGED <<mailVars, cfgVars, signalVars>>

\* STEP 2: subprocess.run(['pkill', '-9', 'mpv']) kills every mpv process
\* (execute_mpv and generate_thumbnail import subprocess for their threads).
KillExisting(r) ==
    /\ starts[r].pc = "kill"
    /\ starts[r].kind # "play"
    /\ procs' = {}
    /\ starts' = SetPc(r, "spawn")
    /\ entryLog' = [entryLog EXCEPT ![r] = Append(@, "kill")]
    /\ UNCHANGED <<video_transition_timer, timers, current_video_id,
                   persisted_video_id, video_next_item, thumbs, stops,
                   lastStart, superseded, stopLast>>
    /\ UNCHANGED <<mailVars, cfgVars, signalVars>>

\* STEP 2 of the legacy play thread: play_video does not import subprocess
\* and the module does not either, so subprocess.run raises NameError; the
\* except clause prints it and the thread ends without killing or spawning.
PlayKillFails(r) ==
    /\ starts[r].pc = "kill"
    /\ starts[r].kind = "play"
    /\ starts' = SetPc(r, "done")
    /\ UNCHANGED <<procs, video_transition_timer, timers, current_video_id,
                   persisted_video_id, video_next_item, thumbs, stops,
                   lastStart, superseded, stopLast, entryLog>>
    /\ UNCHANGED <<mailVars, cfgVars, signalVars>>

\* Where a launch thread continues after the player was spawned.
AfterSpawn(kind) ==
    CASE kind = "execute"   -> "playing"
      [] kind = "thumbnail" -> "setid"

\* STEP 3: subprocess.Popen(['mpv', ...]) spawns a new player process.
SpawnMpv(r) ==
    /\ starts[r].pc = "spawn"
    /\ procs' = procs \cup {r}
    /\ starts' = SetPc(r, AfterSpawn(starts[r].kind))
    /\ entryLog' = [entryLog EXCEPT ![r] = Append(@, "spawn")]
    /\ UNCHANGED <<video_transition_timer, timers, current_video_id,
                   persisted_video_id, video_next_item, thumbs, stops,
                   lastStart, superseded, stopLast>>
    /\ UNCHANGED <<mailVars, cfgVars, signalVars>>

\* Popen raises (the player cannot be executed): the thread's except clause
\* prints the error and the thread ends.
SpawnFails(r) ==
    /\ starts[r].pc = "spawn"
    /\ starts' = SetPc(r, "done")
    /\ UNCHANGED <<procs, video_transition_timer, timers, current_video_id,
                   persisted_video_id, video_next_item, thumbs, stops,
                   lastStart, superseded, stopLast, entryLog>>
    /\ UNCHANGED <<mailVars, cfgVars, signalVars>>

\* The external player exits on its own (crash, bad URL).
MpvExits(p) ==
    /\ p \in procs
    /\ procs' = procs \ {p}
    /\ UNCHANGED <<video_transition_timer, timers, current_video_id,
                   persisted_video_id, video_next_item, thumbs, starts, stops,
                   lastStart, superseded, stopLast, entryLog>>
    /\ UNCHANGED <<mailVars, cfgVars, signalVars>>

\* ------------------------------------- cancel_video_transition_timer, inlined

\* cancel_video_transition_timer() reads the global handle three times:
\*   if video_transition_timer:            (check)
\*       video_transition_timer.cancel()   (call; AttributeError when it became None)
\*       video_transition_timer = None     (clear)

\* launch_mpv_async, after the window was raised: emit 'video_playing', then
\* enter start_video_transition_timer().
VideoPlaying(r) ==
    /\ starts[r].pc = "playing"
    /\ starts' = SetPc(r, "tc_check")
    /\ video_playing' = video_playing \cup {r}
    /\ UNCHANGED <<procs, video_transition_timer, timers, current_video_id,
                   persisted_video_id, video_next_item, thumbs, stops,
                   lastStart, superseded, stopLast, entryLog>>
    /\ UNCHANGED <<mailVars, cfgVars>>
    /\ UNCHANGED <<timer_interval, captures, thumbnail_generated, show_kiosk, day_status, requestVars>>

StartCancelCheck(r) ==
    /\ starts[r].pc = "tc_check"
    /\ IF video_transition_timer = NoTimer
       THEN /\ starts' = SetPc(r, "t_new")
            /\ entryLog' = [entryLog EXCEPT ![r] = Append(@, "cancel")]
       ELSE /\ starts' = SetPc(r, "tc_cancel")
            /\ UNCHANGED entryLog
    /\ UNCHANGED <<procs, video_transition_timer, timers, current_video_id,
                   persisted_video_id, video_next_item, thumbs, stops,
                   lastStart, superseded, stopLast>>
    /\ UNCHANGED <<mailVars, cfgVars, signalVars>>

StartCancelCall(r) ==
    /\ starts[r].pc = "tc_cancel"
    /\ IF video_transition_timer = NoTimer
       THEN /\ starts' = SetPc(r, "done")
            /\ UNCHANGED timers
       ELSE /\ timers' = [timers EXCEPT ![video_transition_timer] = CancelTimer(@)]
            /\ starts' = SetPc(r, "tc_clear")
    /\ UNCHANGED <<procs, video_transition_timer, current_video_id,
                   persisted_video_id, video_next_item, thumbs, stops,
                   lastStart, superseded, stopLast, entryLog>>
    /\ UNCHANGED <<mailVars, cfgVars, signalVars>>

StartCancelClear(r) ==
    /\ starts[r].pc = "tc_clear"
    /\ video_transition_timer' = NoTimer
    /\ starts' = SetPc(r, "t_new")
    /\ entryLog' = [entryLog EXCEPT ![r] = Append(@, "cancel")]
    /\ UNCHANGED <<procs, timers, current_video_id, persisted_video_id,
                   video_next_item, thumbs, stops, lastStart, superseded, stopLast>>
    /\ UNCHANGED <<mailVars, cfgVars, signalVars>>

\* --------------------------------------------- start_video_transition_timer

\* interval_seconds = get_settings().get('interval', 3600);
\* video_transition_timer = threading.Timer(interval_seconds, auto_transition)
TimerNew(r) ==
    /\ starts[r].pc = "t_new"
    /\ timers' = [timers EXCEPT ![r] = "created"]
    /\ timer_interval' = [timer_interval EXCEPT ![r] = settings.interval]
    /\ video_transition_timer' = r
    /\ starts' = SetPc(r, "t_daemon")
    /\ UNCHANGED <<procs, current_video_id, persisted_video_id, video_next_item,
                   thumbs, stops, lastStart, superseded, stopLast, entryLog>>
    /\ UNCHANGED <<mailVars, cfgVars>>
    /\ UNCHANGED <<video_playing, captures, thumbnail_generated, show_kiosk, day_status, requestVars>>

\* video_transition_timer.daemon = True, on whatever the global refers to now:
\* AttributeError on None, RuntimeError on a thread already started; either
\* ends the launch thread in its except clause.
TimerDaemon(r) ==
    /\ starts[r].pc = "t_daemon"
    /\ starts' = SetPc(r, IF /\ video_transition_timer # NoTimer
                             /\ Startable(timers[video_transition_timer])
                          THEN "t_start" ELSE "done")
    /\ UNCHANGED <<procs, video_transition_timer, timers, current_video_id,
                   persisted_video_id, video_next_item, thumbs, stops,
                   lastStart, superseded, stopLast, entryLog>>
    /\ UNCHANGED <<mailVars, cfgVars, signalVars>>

\* launch_mpv_async after the timer: capture a thumbnail when none exists.
AfterTimer(r) ==
    IF starts[r].vid # None /\ starts[r].vid \notin thumbs THEN "capture" ELSE "done"

\* video_transition_timer.start(), on whatever the global refers to now.
TimerStart(r) ==
    /\ starts[r].pc = "t_start"
    /\ IF /\ video_transition_timer # NoTimer
          /\ Startable(timers[video_transition_timer])
       THEN /\ timers' = [timers EXCEPT ![video_transition_timer] =
                   IF @ = "created" THEN "armed" ELSE "cancelled"]
            /\ starts' = SetPc(r, AfterTimer(r))
       ELSE /\ starts' = SetPc(r, "done")
            /\ UNCHANGED timers
    /\ UNCHANGED <<procs, video_transition_timer, current_video_id,
                   persisted_video_id, video_next_item, thumbs, stops,
                   lastStart, superseded, stopLast, entryLog>>
    /\ UNCHANGED <<mailVars, cfgVars, signalVars>>

\* ------------------------------------------------ thumbnail capture with retry

CaptureResults == {"failed", "dark", "bright"}

\* Mutant of Capture: a dark frame is retried once more.
CaptureOnceMore(r, result) ==
    /\ starts[r].pc = "capture"
    /\ captures' = [captures EXCEPT ![r] = @ + 1]
    /\ LET vid == starts[r].vid
           attempt == starts[r].att IN
       IF result = "failed"
       THEN /\ starts' = SetPc(r, "done")
            /\ UNCHANGED <<thumbs, thumbnail_generated>>
       ELSE IF result = "dark" /\ attempt <= max_retries
       THEN /\ thumbs' = thumbs \ {vid}
            /\ starts' = [starts EXCEPT ![r].att = attempt + 1]
            /\ UNCHANGED thumbnail_generated
       ELSE /\ thumbs' = thumbs \cup {vid}
            /\ thumbnail_generated' = [thumbnail_generated EXCEPT ![r] = @ + 1]
            /\ starts' = SetPc(r, "done")
    /\ UNCHANGED <<procs, video_transition_timer, timers, current_video_id,
                   persisted_video_id, video_next_item, stops,
                   lastStart, superseded, stopLast, entryLog>>
    /\ UNCHANGED <<mailVars, cfgVars>>
    /\ UNCHANGED <<timer_interval, video_playing, show_kiosk, day_status, requestVars>>

\* One pass of the capture loop: wait, scrot, brightness check; a kept
\* frame is followed by emit 'thumbnail_generated' and break.
Capture(r, result) ==
    /\ starts[r].pc = "capture"
    /\ captures' = [captures EXCEPT ![r] = @ + 1]
    /\ LET vid == starts[r].vid
           attempt == starts[r].att IN
       IF result = "failed"
       THEN /\ starts' = SetPc(r, "done")
            /\ UNCHANGED <<thumbs, thumbnail_generated>>
       ELSE IF result = "dark" /\ attempt < max_retries
       THEN /\ thumbs' = thumbs \ {vid}
            /\ starts' = [starts EXCEPT ![r].att = attempt + 1]
            /\ UNCHANGED thumbnail_generated
       ELSE /\ thumbs' = thumbs \cup {vid}
            /\ thumbnail_generated' = [thumbnail_generated EXCEPT ![r] = @ + 1]
            /\ starts' = SetPc(r, "done")
    /\ UNCHANGED <<procs, video_transition_timer, timers, current_video_id,
                   persisted_video_id, video_next_item, stops,
                   lastStart, superseded, stopLast, entryLog>>
    /\ UNCHANGED <<mailVars, cfgVars>>
    /\ UNCHANGED <<timer_interval, video_playing, show_kiosk, day_status, requestVars>>

\* generate_thumbnail_async after Popen: record the video id, emit 'video_started'.
ThumbnailSetId(r) ==
    /\ starts[r].pc = "setid"
    /\ current_video_id' = starts[r].vid
    /\ persisted_video_id' = starts[r].vid
    /\ starts' = SetPc(r, "capture")
    /\ UNCHANGED <<procs, video_transition_timer, timers, video_next_item, thumbs,
                   stops, lastStart, superseded, stopLast, entryLog>>
    /\ UNCHANGED <<mailVars, cfgVars, signalVars>>

\* --------------------------------------------------- auto_transition callback

\* The timer's wait ended without a cancel: threading.Timer.run calls the callback.
TimerFire(t) ==
    /\ timers[t] = "armed"
    /\ timers' = [timers EXCEPT ![t] = "cb_clear"]
    /\ UNCHANGED <<procs, video_transition_timer, current_video_id,
                   persisted_video_id, video_next_item, thumbs, starts, stops,
                   lastStart, superseded, stopLast, entryLog>>
    /\ UNCHANGED <<mailVars, cfgVars, signalVars>>

\* video_transition_timer = None
AutoClearHandle(t) ==
    /\ timers[t] = "cb_clear"
    /\ video_transition_timer' = NoTimer
    /\ timers' = [timers EXCEPT ![t] = "cb_kill"]
    /\ UNCHANGED <<procs, current_video_id, persisted_video_id, video_next_item,
                   thumbs, starts, stops, lastStart, superseded, stopLast, entryLog>>
    /\ UNCHANGED <<mailVars, cfgVars, signalVars>>

\* pkill -9 mpv; current_video_id = None
AutoKill(t) ==
    /\ timers[t] = "cb_kill"
    /\ procs' = {}
    /\ current_video_id' = None
    /\ timers' = [timers EXCEPT ![t] = "cb_save"]
    /\ UNCHANGED <<video_transition_timer, persisted_video_id, video_next_item,
                   thumbs, starts, stops, lastStart, superseded, stopLast, entryLog>>
    /\ UNCHANGED <<mailVars, cfgVars, signalVars>>

\* settings['current_video_id'] = None; save_settings(settings)
AutoSave(t) ==
    /\ timers[t] = "cb_save"
    /\ persisted_video_id' = None
    /\ timers' = [timers EXCEPT ![t] = "cb_emit"]
    /\ UNCHANGED <<procs, video_transition_timer, current_video_id, video_next_item,
                   thumbs, starts, stops, lastStart, superseded, stopLast, entryLog>>
    /\ UNCHANGED <<mailVars, cfgVars, signalVars>>

\* next_item = video_next_item; video_next_item = None; emit 'show_kiosk'
\* with {'start_image': next_item}, with {} when next_item is None.
AutoShowKiosk(t) ==
    /\ timers[t] = "cb_emit"
    /\ video_next_item' = None
    /\ show_kiosk' = Append(show_kiosk, [by |-> "auto_transition", id |-> t,
                                         start_image |-> video_next_item])
    /\ timers' = [timers EXCEPT ![t] = "done"]
    /\ UNCHANGED <<procs, video_transition_timer, current_video_id,
                   persisted_video_id, thumbs, starts, stops,
                   lastStart, superseded, stopLast, entryLog>>
    /\ UNCHANGED <<mailVars, cfgVars>>
    /\ UNCHANGED <<timer_interval, video_playing, captures, thumbnail_generated, day_status, requestVars>>

\* ------------------------------------------------------------- stop requests

CanBeginStop(s) ==
    /\ stops[s].pc = "idle"
    /\ IF s = 1 THEN TRUE ELSE stops[s - 1].pc # "idle"

SetStopPc(s, pc) == [stops EXCEPT ![s].pc = pc]

\* POST /api/videos/stop-mpv arrives; the handler first cancels the timer.
StopMpv(s, jump_to) ==
    /\ CanBeginStop(s)
    /\ stops' = [stops EXCEPT ![s] = [pc |-> "tc_check", target |-> jump_to]]
    /\ stopLast' = TRUE
    /\ UNCHANGED <<procs, video_transition_timer, timers, current_video_id,
                   persisted_video_id, video_next_item, thumbs, starts,
                   lastStart, superseded, entryLog>>
    /\ UNCHANGED <<mailVars, cfgVars, signalVars>>

StopCancelCheck(s) ==
    /\ stops[s].pc = "tc_check"
    /\ stops' = SetStopPc(s, IF video_transition_timer = NoTimer
                             THEN "k_clear" ELSE "tc_cancel")
    /\ UNCHANGED <<procs, video_transition_timer, timers, current_video_id,
                   persisted_video_id, video_next_item, thumbs, starts,
                   lastStart, superseded, stopLast, entryLog>>
    /\ UNCHANGED <<mailVars, cfgVars, signalVars>>

\* An AttributeError here is not caught: the request fails and
\* stop_mpv_async is never started.
StopCancelCall(s) ==
    /\ stops[s].pc = "tc_cancel"
    /\ IF video_transition_timer = NoTimer
       THEN /\ stops' = SetStopPc(s, "failed")
            /\ UNCHANGED timers
       ELSE /\ timers' = [timers EXCEPT ![video_transition_timer] = CancelTimer(@)]
            /\ stops' = SetStopPc(s, "tc_clear")
    /\ UNCHANGED <<procs, video_transition_timer, current_video_id,
                   persisted_video_id, video_next_item, thumbs, starts,
                   lastStart, superseded, stopLast, entryLog>>
    /\ UNCHANGED <<mailVars, cfgVars, signalVars>>

StopCancelClear(s) ==
    /\ stops[s].pc = "tc_clear"
    /\ video_transition_timer' = NoTimer
    /\ stops' = SetStopPc(s, "k_clear")
    /\ UNCHANGED <<procs, timers, current_video_id, persisted_video_id,
                   video_next_item, thumbs, starts,
                   lastStart, superseded, stopLast, entryLog>>
    /\ UNCHANGED <<mailVars, cfgVars, signalVars>>

\* stop_mpv_async: mpv_process is never assigned, so the terminate() branch
\* is skipped; current_video_id = None, in memory and in settings.
StopClearId(s) ==
    /\ stops[s].pc = "k_clear"
    /\ current_video_id' = None
    /\ persisted_video_id' = None
    /\ stops' = SetStopPc(s, "k_kill")
    /\ UNCHANGED <<procs, video_transition_timer, timers, video_next_item, thumbs,
                   starts, lastStart, superseded, stopLast, entryLog>>
    /\ UNCHANGED <<mailVars, cfgVars, signalVars>>

\* pkill -9 mpv
StopKill(s) ==
    /\ stops[s].pc = "k_kill"
    /\ procs' = {}
    /\ stops' = SetStopPc(s, "k_emit")
    /\ UNCHANGED <<video_transition_timer, timers, current_video_id,
                   persisted_video_id, video_next_item, thumbs, starts,
                   lastStart, superseded, stopLast, entryLog>>
    /\ UNCHANGED <<mailVars, cfgVars, signalVars>>

\* emit 'show_kiosk' with {'start_image': target_image}, without payload
\* when no target was given (start_image None); raise the browser window,
\* emit 'video_stopped'.
StopShowKiosk(s) ==
    /\ stops[s].pc = "k_emit"
    /\ show_kiosk' = Append(show_kiosk, [by |-> "stop_mpv", id |-> s,
                                         start_image |-> stops[s].target])
    /\ stops' = SetStopPc(s, "done")
    /\ UNCHANGED <<procs, video_transition_timer, timers, current_video_id,
                   persisted_video_id, video_next_item, thumbs, starts,
                   lastStart, superseded, stopLast, entryLog>>
    /\ UNCHANGED <<mailVars, cfgVars>>
    /\ UNCHANGED <<timer_interval, video_playing, captures, thumbnail_generated, day_status, requestVars>>

\* ------------------------------------------------------------ specification

StartRequest(r) ==
    \/ \E video_id \in Videos, url \in {None, "url"}, images \in Listings :
           ExecuteMpv(r, video_id, url, images)
    \/ \E video_id \in Videos : PlayVideo(r, video_id)
    \/ \E video_id \in Videos : GenerateThumbnail(r, video_id)

StartThread(r) ==
    \/ ShowLoading(r)
    \/ KillExisting(r)
    \/ PlayKillFails(r)
    \/ SpawnMpv(r)
    \/ SpawnFails(r)
    \/ VideoPlaying(r)
    \/ StartCancelCheck(r)
    \/ StartCancelCall(r)
    \/ StartCancelClear(r)
    \/ TimerNew(r)
    \/ TimerDaemon(r)
    \/ TimerStart(r)
    \/ \E result \in CaptureResults : Capture(r, result)
    \/ ThumbnailSetId(r)

TimerThread(t) ==
    \/ TimerFire(t)
    \/ AutoClearHandle(t)
    \/ AutoKill(t)
    \/ AutoSave(t)
    \/ AutoShowKiosk(t)

StopHandler(s) ==
    \/ StopCancelCheck(s)
    \/ StopCancelCall(s)
    \/ StopCancelClear(s)

StopThread(s) ==
    \/ StopClearId(s)
    \/ StopKill(s)
    \/ StopShowKiosk(s)

Next ==
    \/ \E r \in Starts : StartRequest(r) \/ StartThread(r)
    \/ \E t \in Starts : TimerThread(t)
    \/ \E s \in Stops : (\E jump_to \in JumpTargets : StopMpv(s, jump_to))
                        \/ StopHandler(s) \/ StopThread(s)
    \/ \E p \in Starts : MpvExits(p)

Spec == Init /\ [][Next]_vars

\* ================================================================ command channel

\* send_command: the command kinds the mailbox accepts besides 'jump'.
SimpleCommands == {"next", "prev", "pause", "play", "reload"}

\* Mutant of ValidCommand: the final else branch accepts any command kind.
ValidCommandAnyKind(command, image_name) ==
    IF command = "jump" THEN image_name # None
    ELSE TRUE

\* send_command: the request is accepted (otherwise answered 400).
ValidCommand(command, image_name) ==
    IF command = "jump" THEN image_name # None
    ELSE command \in SimpleCommands

\* send_command: the value stored in current_command ('jump' keeps its
\* image_name; the other commands are stored as the bare command, and the
\* request record keeps no image_name for them).
CommandValue(n) ==
    [command |-> sends[n].command,
     image_name |-> sends[n].image_name,
     id |-> n]

\* Mutant of Enqueue: a pending command is kept, the new one is dropped.
EnqueueKeepsPending(slot, cmd) == IF slot = NoCommand THEN cmd ELSE slot

\* send_command: 'current_command = ...' overwrites the slot.
Enqueue(slot, cmd) == cmd

\* poll_command: truthiness of current_command.
Truthy(slot) == slot # NoCommand

\* Mutant of Fresh: a command exactly 5 seconds old still counts as fresh.
FreshInclusive(t, timestamp) == t - timestamp <= TTL

\* poll_command: time.time() - command_timestamp < 5
Fresh(t, timestamp) == t - timestamp < TTL

\* No send or poll request is being handled.
MailboxIdle ==
    /\ \A n \in Sends : sends[n].pc \in {"idle", "done", "rejected"}
    /\ \A q \in Polls : polls[q].pc \in {"idle", "done"}

CanBeginSend(n) ==
    /\ sends[n].pc = "idle"
    /\ IF n = 1 THEN TRUE ELSE sends[n - 1].pc # "idle"

CanBeginPoll(q) ==
    /\ polls[q].pc = "idle"
    /\ IF q = 1 THEN TRUE ELSE polls[q - 1].pc # "idle"

\* POST /api/control/send arrives and is validated.
SendCommand(n, command, image_name) ==
    /\ CanBeginSend(n)
    /\ sends' = [sends EXCEPT ![n] =
           [pc |-> IF ValidCommand(command, image_name) THEN "write" ELSE "rejected",
            command |-> command,
            image_name |-> IF command = "jump" THEN image_name ELSE None,
            stamp |-> -1, replaced |-> 0]]
    /\ UNCHANGED <<current_command, command_timestamp, now, remote_emits, polls>>
    /\ UNCHANGED <<videoVars, cfgVars, signalVars>>

\* current_command = command
SendWrite(n) ==
    /\ sends[n].pc = "write"
    /\ current_command' = Enqueue(current_command, CommandValue(n))
    /\ sends' = [sends EXCEPT ![n].pc = "stamp", ![n].replaced = current_command.id]
    /\ UNCHANGED <<command_timestamp, now, remote_emits, polls>>
    /\ UNCHANGED <<videoVars, cfgVars, signalVars>>

\* command_timestamp = time.time(); only 'jump' is also broadcast.
SendStamp(n) ==
    /\ sends[n].pc = "stamp"
    /\ command_timestamp' = now
    /\ sends' = [sends EXCEPT ![n].pc = IF sends[n].command = "jump" THEN "emit" ELSE "done",
                              ![n].stamp = now]
    /\ UNCHANGED <<current_command, now, remote_emits, polls>>
    /\ UNCHANGED <<videoVars, cfgVars, signalVars>>

\* socketio.emit('remote_command', {'command': 'jump', ...})
SendEmit(n) ==
    /\ sends[n].pc = "emit"
    /\ remote_emits' = remote_emits \cup {n}
    /\ sends' = [sends EXCEPT ![n].pc = "done"]
    /\ UNCHANGED <<current_command, command_timestamp, now, polls>>
    /\ UNCHANGED <<videoVars, cfgVars, signalVars>>

\* GET /api/control/poll arrives: 'if current_command and ...', first operand.
PollCheck(q) ==
    /\ CanBeginPoll(q)
    /\ polls' = [polls EXCEPT ![q].pc = IF Truthy(current_command) THEN "age" ELSE "done",
                              ![q].saw = current_command.id]
    /\ UNCHANGED <<current_command, command_timestamp, now, remote_emits, sends>>
    /\ UNCHANGED <<videoVars, cfgVars, signalVars>>

\* '... and (time.time() - command_timestamp < 5)'; the else branch answers
\* {'command': None} and leaves the globals as they are.
PollAge(q) ==
    /\ polls[q].pc = "age"
    /\ polls' = [polls EXCEPT ![q].pc = IF Fresh(now, command_timestamp) THEN "read" ELSE "done",
                              ![q].tread = now,
                              ![q].misjudged =
                                  /\ Truthy(current_command)
                                  /\ sends[current_command.id].stamp # command_timestamp]
    /\ UNCHANGED <<current_command, command_timestamp, now, remote_emits, sends>>
    /\ UNCHANGED <<videoVars, cfgVars, signalVars>>

\* cmd = current_command
PollRead(q) ==
    /\ polls[q].pc = "read"
    /\ polls' = [polls EXCEPT ![q].pc = "clear", ![q].cmd = current_command]
    /\ UNCHANGED <<current_command, command_timestamp, now, remote_emits, sends>>
    /\ UNCHANGED <<videoVars, cfgVars, signalVars>>

\* current_command = None; return jsonify({'command': cmd})
PollClear(q) ==
    /\ polls[q].pc = "clear"
    /\ current_command' = NoCommand
    /\ polls' = [polls EXCEPT ![q].pc = "done"]
    /\ UNCHANGED <<command_timestamp, now, remote_emits, sends>>
    /\ UNCHANGED <<videoVars, cfgVars, signalVars>>

\* A second passes.
Tick ==
    /\ now < MaxTime
    /\ now' = now + 1
    /\ UNCHANGED <<current_command, command_timestamp, remote_emits, sends, polls>>
    /\ UNCHANGED <<videoVars, cfgVars, signalVars>>

SendThread(n) ==
    \/ SendWrite(n)
    \/ SendStamp(n)
    \/ SendEmit(n)

PollThread(q) ==
    \/ PollAge(q)
    \/ PollRead(q)
    \/ PollClear(q)

\* A second passes while requests are handled concurrently.
TickRace == now < StartTime + MaxRaceTicks /\ Tick

\* Requests handled concurrently by the threaded server.
NextMailbox ==
    \/ \E n \in Sends :
          \/ \E command \in CommandKinds, image_name \in ImageNames :
                 SendCommand(n, command, image_name)
          \/ SendThread(n)
    \/ \E q \in Polls : PollCheck(q) \/ PollThread(q)
    \/ TickRace

SpecMailbox == Init /\ [][NextMailbox]_vars

\* Requests handled one at a time: a request is taken up only when no other
\* send or poll is being handled.
SendCommandAlone(n, command, image_name) ==
    MailboxIdle /\ SendCommand(n, command, image_name)

PollCheckAlone(q) == MailboxIdle /\ PollCheck(q)

NextMailboxSeq ==
    \/ \E n \in Sends :
          \/ \E command \in CommandKinds, image_name \in ImageNames :
                 SendCommandAlone(n, command, image_name)
          \/ SendThread(n)
    \/ \E q \in Polls : PollCheckAlone(q) \/ PollThread(q)
    \/ Tick

SpecMailboxSeq == Init /\ [][NextMailboxSeq]_vars

\* ===================================================== listing and reshuffle

\* No listing or reshuffle request is being handled.
SelectionIdle ==
    /\ \A k \in 1..MaxLists : lists[k].pc \in {"idle", "done"}
    /\ reshuffle.pc \in {"idle", "done"}

CanBeginList(k) ==
    /\ lists[k].pc = "idle"
    /\ IF k = 1 THEN TRUE ELSE lists[k - 1].pc # "idle"

\* random.random(): value is what the call returns.  After random.seed()
\* the value is not determined by the program; from a seeded state it is.
RandomRandom(value) ==
    /\ IF rng = Entropy
       THEN rng' = rng
       ELSE value = Advance(rng) /\ rng' = Advance(Advance(rng))
    /\ draws' = 1 - draws
    /\ random_value' = value

\* Mutant of ListImages: the generator is not seeded before the shuffle.
ListImagesUnseeded(k, enabled_only) ==
    /\ CanBeginList(k)
    /\ lists' = [lists EXCEPT ![k] =
           [pc |-> "shuffle", enabled_only |-> enabled_only,
            items |-> ListItems(settings, hour, enabled_only),
            seed |-> settings.shuffle_id, answer |-> <<>>]]
    /\ UNCHANGED <<settings, rng, draws, random_value, hour, reshuffle, reshuffles,
                   interval_served, cfgOp>>
    /\ UNCHANGED <<videoVars, mailVars, signalVars>>

\* GET /api/images: the handler up to random.seed(shuffle_id).
ListImages(k, enabled_only) ==
    /\ CanBeginList(k)
    /\ lists' = [lists EXCEPT ![k] =
           [pc |-> "shuffle", enabled_only |-> enabled_only,
            items |-> ListItems(settings, hour, enabled_only),
            seed |-> settings.shuffle_id, answer |-> <<>>]]
    /\ rng' = settings.shuffle_id
    /\ UNCHANGED <<settings, draws, random_value, hour, reshuffle, reshuffles,
                   interval_served, cfgOp>>
    /\ UNCHANGED <<videoVars, mailVars, signalVars>>

\* random.shuffle(items), with the generator as it is at this moment.
ListShuffle(k) ==
    /\ lists[k].pc = "shuffle"
    /\ \E g \in Seeds :
          /\ rng # Entropy => g = rng
          /\ lists' = [lists EXCEPT ![k].pc = "reset",
                                    ![k].answer = Shuffle(lists[k].items, g)]
          /\ rng' = IF rng = Entropy THEN rng ELSE Advance(rng)
    /\ UNCHANGED <<settings, draws, random_value, hour, reshuffle, reshuffles,
                   interval_served, cfgOp>>
    /\ UNCHANGED <<videoVars, mailVars, signalVars>>

\* random.seed(); return jsonify(items)
ListReset(k) ==
    /\ lists[k].pc = "reset"
    /\ rng' = Entropy
    /\ lists' = [lists EXCEPT ![k].pc = "done"]
    /\ UNCHANGED <<settings, draws, random_value, hour, reshuffle, reshuffles,
                   interval_served, cfgOp>>
    /\ UNCHANGED <<videoVars, mailVars, signalVars>>

ListThread(k) ==
    \/ ListShuffle(k)
    \/ ListReset(k)

\* GET /api/settings: 'interval' is replaced by get_current_interval.
GetSettingsApi ==
    /\ interval_served' = get_current_interval(settings, hour)
    /\ UNCHANGED <<settings, rng, draws, random_value, hour, lists, reshuffle,
                   reshuffles, cfgOp>>
    /\ UNCHANGED <<videoVars, mailVars, signalVars>>

\* POST /api/kiosk/reshuffle: the handler up to the choice between a plain
\* new seed and the avoid-first search.
ReshuffleImages(avoid_first, dir_order) ==
    /\ reshuffle.pc \in {"idle", "done"}
    /\ reshuffles < MaxReshuffles
    /\ reshuffles' = reshuffles + 1
    /\ LET images == ReshuffleItems(settings, dir_order) IN
       reshuffle' = [IdleReshuffle EXCEPT
           !.pc = IF avoid_first = None \/ Len(images) <= 1 THEN "plain" ELSE "draw",
           !.avoid_first = avoid_first,
           !.images = images]
    /\ UNCHANGED <<settings, rng, draws, random_value, hour, lists,
                   interval_served, cfgOp>>
    /\ UNCHANGED <<videoVars, mailVars, signalVars>>

\* Mutant of ReshufflePlain: the seed drawn is returned but not stored.
ReshufflePlainUnsaved ==
    /\ reshuffle.pc = "plain"
    /\ \E value \in Seeds :
          /\ RandomRandom(value)
          /\ reshuffle' = [reshuffle EXCEPT !.pc = "done", !.new_shuffle_id = value]
    /\ UNCHANGED <<settings, hour, lists, reshuffles, interval_served, cfgOp>>
    /\ UNCHANGED <<videoVars, mailVars, signalVars>>

\* 'if not avoid_first or len(images) <= 1': one seed is drawn and stored,
\* the answer carries no warning.
ReshufflePlain ==
    /\ reshuffle.pc = "plain"
    /\ \E value \in Seeds :
          /\ RandomRandom(value)
          /\ settings' = [settings EXCEPT !.shuffle_id = value]
          /\ reshuffle' = [reshuffle EXCEPT !.pc = "done", !.new_shuffle_id = value]
    /\ UNCHANGED <<hour, lists, reshuffles, interval_served, cfgOp>>
    /\ UNCHANGED <<videoVars, mailVars, signalVars>>

\* for attempt in range(max_attempts): new_shuffle_id = random.random()
ReshuffleDraw ==
    /\ reshuffle.pc = "draw"
    /\ \E value \in Seeds :
          /\ RandomRandom(value)
          /\ reshuffle' = [reshuffle EXCEPT !.pc = "seed", !.new_shuffle_id = value]
    /\ UNCHANGED <<settings, hour, lists, reshuffles, interval_served, cfgOp>>
    /\ UNCHANGED <<videoVars, mailVars, signalVars>>

\* random.seed(new_shuffle_id)
ReshuffleSeed ==
    /\ reshuffle.pc = "seed"
    /\ rng' = reshuffle.new_shuffle_id
    /\ reshuffle' = [reshuffle EXCEPT !.pc = "shuffle"]
    /\ UNCHANGED <<settings, draws, random_value, hour, lists, reshuffles,
                   interval_served, cfgOp>>
    /\ UNCHANGED <<videoVars, mailVars, signalVars>>

\* test_images = images.copy(); random.shuffle(test_images)
ReshuffleShuffle ==
    /\ reshuffle.pc = "shuffle"
    /\ \E g \in Seeds :
          /\ rng # Entropy => g = rng
          /\ reshuffle' = [reshuffle EXCEPT !.pc = "reset",
                                            !.test_images = Shuffle(reshuffle.images, g)]
          /\ rng' = IF rng = Entropy THEN rng ELSE Advance(rng)
    /\ UNCHANGED <<settings, draws, random_value, hour, lists, reshuffles,
                   interval_served, cfgOp>>
    /\ UNCHANGED <<videoVars, mailVars, signalVars>>

\* random.seed(); then 'if first_image != avoid_first': the candidate is
\* stored and the request answered, otherwise the next attempt follows.
ReshuffleReset ==
    /\ reshuffle.pc = "reset"
    /\ rng' = Entropy
    /\ IF reshuffle.test_images[1] # reshuffle.avoid_first
       THEN /\ settings' = [settings EXCEPT !.shuffle_id = reshuffle.new_shuffle_id]
            /\ reshuffle' = [reshuffle EXCEPT !.pc = "done",
                                              !.attempt = reshuffle.attempt + 1]
       ELSE /\ settings' = settings
            /\ reshuffle' = [reshuffle EXCEPT
                   !.pc = IF reshuffle.attempt + 1 < max_attempts THEN "draw" ELSE "exhausted",
                   !.attempt = reshuffle.attempt + 1]
    /\ UNCHANGED <<draws, random_value, hour, lists, reshuffles, interval_served, cfgOp>>
    /\ UNCHANGED <<videoVars, mailVars, signalVars>>

\* Mutant of ReshuffleExhausted: the answer carries no warning.
ReshuffleExhaustedSilent ==
    /\ reshuffle.pc = "exhausted"
    /\ settings' = [settings EXCEPT !.shuffle_id = reshuffle.new_shuffle_id]
    /\ reshuffle' = [reshuffle EXCEPT !.pc = "done"]
    /\ UNCHANGED <<rng, draws, random_value, hour, lists, reshuffles,
                   interval_served, cfgOp>>
    /\ UNCHANGED <<videoVars, mailVars, signalVars>>

\* After max_attempts rejected candidates the last one is stored and the
\* answer carries the warning.
ReshuffleExhausted ==
    /\ reshuffle.pc = "exhausted"
    /\ settings' = [settings EXCEPT !.shuffle_id = reshuffle.new_shuffle_id]
    /\ reshuffle' = [reshuffle EXCEPT !.pc = "done", !.warning = TRUE]
    /\ UNCHANGED <<rng, draws, random_value, hour, lists, reshuffles,
                   interval_served, cfgOp>>
    /\ UNCHANGED <<videoVars, mailVars, signalVars>>

ReshuffleThread ==
    \/ ReshufflePlain
    \/ ReshuffleDraw
    \/ ReshuffleSeed
    \/ ReshuffleShuffle
    \/ ReshuffleReset
    \/ ReshuffleExhausted

\* Items a reshuffle request may name in 'avoid_first' (None: no constraint).
AvoidFirst == {None, "img2", "v1"}

\* Requests are handled one at a time.
ListImagesAlone(k, enabled_only) == SelectionIdle /\ ListImages(k, enabled_only)

ReshuffleImagesAlone(avoid_first, dir_order) ==
    SelectionIdle /\ ReshuffleImages(avoid_first, dir_order)

\* ---- SpecShuffle: reshuffle requests on a stored configuration

\* Names and intervals of the themes and atmospheres of the stored
\* configurations: theme T1 and atmospheres A1 (themes T1) and A2.
StoredThemes == [DefaultSettings.themes EXCEPT !["T1"] = 60]
StoredAtmospheres == [DefaultSettings.atmospheres EXCEPT !["A1"] = 300, !["A2"] = 900]

\* Configurations in which reshuffle requests are served: one
\* for each kind of selection (day scheduling, active atmosphere, active
\* theme), with videos among the eligible items.
ShuffleSettings ==
    {[DefaultSettings EXCEPT
         !.themes = StoredThemes,
         !.atmospheres = StoredAtmospheres,
         !.atmosphere_themes = [@ EXCEPT !["A1"] = <<"T1">>, !["A2"] = <<"T1", "Extras">>],
         !.day_times = [@ EXCEPT !["1"] = <<"A2">>, !["7"] = <<"A2">>],
         !.image_themes = [@ EXCEPT !["img2"] = <<"Extras", "T1">>],
         !.day_scheduling_enabled = sel[1],
         !.active_atmosphere = sel[2],
         !.active_theme = sel[3],
         !.shuffle_id = 5] :
        sel \in {<<FALSE, None, AllImages>>, <<FALSE, None, "Extras">>, <<TRUE, None, "T1">>, <<FALSE, AllImages, "T1">>}}

InitShuffle ==
    /\ InitOrchestrator
    /\ settings \in ShuffleSettings
    /\ hour = 7
    /\ InitRequests

NextShuffle ==
    \/ \E avoid_first \in AvoidFirst, dir_order \in DirOrders :
          ReshuffleImagesAlone(avoid_first, dir_order)
    \/ ReshuffleThread

SpecShuffle == InitShuffle /\ [][NextShuffle]_vars

\* ---- SpecSelection: listings and GET /api/settings over the configurations

\* Configurations in which the selection is resolved: every combination of
\* day scheduling, active atmosphere and active theme, with item img1 in
\* theme T1, img2 in Extras (enabled or not), video v1 in T1 and v2 in no
\* theme, and a stored interval left over from an atmosphere.  Atmosphere
\* A2 holds Extras, holds no theme or is deleted (interval 0); day slot 1
\* and its mirror 7 hold one of four atmosphere lists.
SelectionSettings ==
    {[DefaultSettings EXCEPT
         !.interval = 300,
         !.themes = StoredThemes,
         !.atmospheres = [StoredAtmospheres EXCEPT !["A2"] = a2[1]],
         !.atmosphere_themes = [@ EXCEPT !["A1"] = <<"T1">>, !["A2"] = a2[2]],
         !.day_times = [@ EXCEPT !["1"] = slot, !["7"] = slot],
         !.enabled_images = [@ EXCEPT !["img2"] = enabled],
         !.day_scheduling_enabled = day,
         !.active_atmosphere = atmosphere,
         !.active_theme = theme,
         !.shuffle_id = 5] :
        a2 \in {<<900, <<"Extras">> >>, <<900, <<>> >>, <<0, <<>> >>},
        slot \in {<<>>, <<"A1">>, <<"A1", "A2">>, <<"A2", "A1">>},
        enabled \in BOOLEAN, day \in BOOLEAN,
        atmosphere \in {None, AllImages, "A1"}, theme \in {AllImages, "T1", "Extras"}}
    \cup
    {[DefaultSettings EXCEPT
         !.interval = 300,
         !.themes = StoredThemes,
         !.atmospheres = StoredAtmospheres,
         !.atmosphere_themes = [@ EXCEPT !["A1"] = <<"T1">>, !["A2"] = themes],
         !.day_scheduling_enabled = day,
         !.active_atmosphere = "A2",
         !.active_theme = theme,
         !.shuffle_id = 5] :
        themes \in {<<"Extras">>, <<>>}, day \in BOOLEAN,
        theme \in {AllImages, "T1", "Extras"}}

InitSelection ==
    /\ InitOrchestrator
    /\ settings \in SelectionSettings
    /\ hour \in {7, 19, 13}
    /\ InitRequests

NextSelection ==
    \/ \E k \in 1..MaxLists :
          \/ \E enabled_only \in BOOLEAN : ListImagesAlone(k, enabled_only)
          \/ ListThread(k)
    \/ GetSettingsApi

SpecSelection == InitSelection /\ [][NextSelection]_vars

\* ------------------------------------------- theme, atmosphere, day requests

\* A request is answered: what it was, its status, and the active theme and
\* atmosphere it found.
Respond(op, status) ==
    cfgOp' = [op |-> op, status |-> status, count |-> cfgOp.count + 1,
              theme_before |-> settings.active_theme,
              atmosphere_before |-> settings.active_atmosphere]

CanBeginConfig == cfgOp.count < MaxConfigOps

\* The handler returns before save_settings.
Reject(op, status) ==
    /\ Respond(op, status)
    /\ UNCHANGED <<settings, rng, draws, random_value>>

\* save_settings(settings) by a handler that does not call random.random().
Save(op, s) ==
    /\ Respond(op, 200)
    /\ settings' = s
    /\ UNCHANGED <<rng, draws, random_value>>

\* settings['shuffle_id'] = random.random(); save_settings(settings)
SaveShuffled(op, s) ==
    /\ Respond(op, 200)
    /\ \E value \in Seeds :
          /\ RandomRandom(value)
          /\ settings' = [s EXCEPT !.shuffle_id = value]

ConfigFrame ==
    /\ UNCHANGED <<hour, lists, reshuffle, reshuffles, interval_served>>
    /\ UNCHANGED <<videoVars, mailVars, signalVars>>

\* list.remove(x): the first occurrence is removed.
RECURSIVE Remove(_, _)
Remove(list, x) ==
    IF list = <<>> THEN <<>>
    ELSE IF Head(list) = x THEN Tail(list)
    ELSE <<Head(list)>> \o Remove(Tail(list), x)

\* POST /api/themes
CreateTheme(theme_name, interval) ==
    /\ CanBeginConfig
    /\ IF settings.themes[theme_name] # 0
       THEN Reject("create_theme", 400)
       ELSE Save("create_theme",
                 [settings EXCEPT !.themes[theme_name] = interval])
    /\ ConfigFrame

\* Mutant of DeleteTheme: 'All Images' and 'Extras' are deleted like any
\* other theme.
DeleteThemeUnprotected(theme_name) ==
    /\ CanBeginConfig
    /\ IF settings.themes[theme_name] = 0 THEN Reject("delete_theme", 404)
       ELSE LET themes == [settings.themes EXCEPT ![theme_name] = 0]
                image_themes ==
                    [img_name \in DOMAIN settings.image_themes |->
                        Remove(settings.image_themes[img_name], theme_name)]
                removed == [settings EXCEPT !.themes = themes,
                                            !.image_themes = image_themes]
            IN Save("delete_theme",
                    IF settings.active_theme = theme_name
                    THEN [removed EXCEPT !.active_theme = AllImages,
                                         !.interval = themes[AllImages]]
                    ELSE removed)
    /\ ConfigFrame

\* DELETE /api/themes/<theme_name>
DeleteTheme(theme_name) ==
    /\ CanBeginConfig
    /\ IF theme_name \in {AllImages, "Extras"} THEN Reject("delete_theme", 400)
       ELSE IF settings.themes[theme_name] = 0 THEN Reject("delete_theme", 404)
       ELSE LET themes == [settings.themes EXCEPT ![theme_name] = 0]
                image_themes ==
                    [img_name \in DOMAIN settings.image_themes |->
                        Remove(settings.image_themes[img_name], theme_name)]
                removed == [settings EXCEPT !.themes = themes,
                                            !.image_themes = image_themes]
            IN Save("delete_theme",
                    IF settings.active_theme = theme_name
                    THEN [removed EXCEPT !.active_theme = AllImages,
                                         !.interval = themes[AllImages]]
                    ELSE removed)
    /\ ConfigFrame

\* Mutant of SetActiveTheme: the theme already active is kept as it is.
SetActiveThemeOnlyNew(theme_name) ==
    /\ CanBeginConfig
    /\ IF theme_name = None THEN Reject("set_active_theme", 400)
       ELSE IF settings.themes[theme_name] = 0 THEN Reject("set_active_theme", 404)
       ELSE IF settings.active_theme = theme_name
       THEN Save("set_active_theme",
                 [settings EXCEPT !.interval = settings.themes[theme_name],
                                  !.active_atmosphere = None])
       ELSE SaveShuffled("set_active_theme",
                [settings EXCEPT !.interval = settings.themes[theme_name],
                                 !.active_theme = theme_name,
                                 !.active_atmosphere = None])
    /\ ConfigFrame

\* POST /api/themes/active
SetActiveTheme(theme_name) ==
    /\ CanBeginConfig
    /\ IF theme_name = None THEN Reject("set_active_theme", 400)
       ELSE IF settings.themes[theme_name] = 0 THEN Reject("set_active_theme", 404)
       ELSE SaveShuffled("set_active_theme",
                [settings EXCEPT !.interval = settings.themes[theme_name],
                                 !.active_theme = theme_name,
                                 !.active_atmosphere = None])
    /\ ConfigFrame

\* POST /api/atmospheres
CreateAtmosphere(atmosphere_name, interval) ==
    /\ CanBeginConfig
    /\ IF settings.atmospheres[atmosphere_name] # 0
       THEN Reject("create_atmosphere", 400)
       ELSE Save("create_atmosphere",
                 [settings EXCEPT !.atmospheres[atmosphere_name] = interval])
    /\ ConfigFrame

\* Mutant of DeleteAtmosphere: the active atmosphere is deleted without
\* clearing active_atmosphere.
DeleteAtmosphereKeepsActive(atmosphere_name) ==
    /\ CanBeginConfig
    /\ IF atmosphere_name = AllImages THEN Reject("delete_atmosphere", 400)
       ELSE IF settings.atmospheres[atmosphere_name] = 0
       THEN Reject("delete_atmosphere", 404)
       ELSE Save("delete_atmosphere",
                 [settings EXCEPT !.atmospheres[atmosphere_name] = 0,
                                  !.atmosphere_themes[atmosphere_name] = <<>>])
    /\ ConfigFrame

\* DELETE /api/atmospheres/<atmosphere_name>
DeleteAtmosphere(atmosphere_name) ==
    /\ CanBeginConfig
    /\ IF atmosphere_name = AllImages THEN Reject("delete_atmosphere", 400)
       ELSE IF settings.atmospheres[atmosphere_name] = 0
       THEN Reject("delete_atmosphere", 404)
       ELSE LET removed ==
                    [settings EXCEPT !.atmospheres[atmosphere_name] = 0,
                                     !.atmosphere_themes[atmosphere_name] = <<>>]
            IN Save("delete_atmosphere",
                    IF settings.active_atmosphere = atmosphere_name
                    THEN [removed EXCEPT !.active_atmosphere = None]
                    ELSE removed)
    /\ ConfigFrame

\* POST /api/atmospheres/active
SetActiveAtmosphere(atmosphere_name) ==
    /\ CanBeginConfig
    /\ IF atmosphere_name = None
       THEN SaveShuffled("clear_active_atmosphere",
                [settings EXCEPT
                    !.active_atmosphere = None,
                    !.interval =
                        IF settings.active_theme # None
                           /\ settings.themes[settings.active_theme] # 0
                        THEN settings.themes[settings.active_theme] ELSE @])
       ELSE IF settings.atmospheres[atmosphere_name] = 0
       THEN Reject("set_active_atmosphere", 404)
       ELSE SaveShuffled("set_active_atmosphere",
                [settings EXCEPT !.interval = settings.atmospheres[atmosphere_name],
                                 !.active_atmosphere = atmosphere_name])
    /\ ConfigFrame

\* POST /api/atmospheres/<atmosphere_name>/themes
UpdateAtmosphereThemes(atmosphere_name, themes) ==
    /\ CanBeginConfig
    /\ IF settings.atmospheres[atmosphere_name] = 0
       THEN Reject("update_atmosphere_themes", 404)
       ELSE Save("update_atmosphere_themes",
                 [settings EXCEPT !.atmosphere_themes[atmosphere_name] = themes])
    /\ ConfigFrame

\* POST /api/day/toggle
ToggleDayScheduling(enabled) ==
    /\ CanBeginConfig
    /\ SaveShuffled("toggle_day_scheduling",
           [settings EXCEPT !.day_scheduling_enabled = enabled,
                            !.active_atmosphere = IF enabled THEN @ ELSE AllImages])
    /\ ConfigFrame

\* POST /api/day/enable
EnableDayScheduling ==
    /\ CanBeginConfig
    /\ SaveShuffled("enable_day_scheduling",
           [settings EXCEPT !.day_scheduling_enabled = TRUE])
    /\ ConfigFrame

\* POST /api/day/disable
DisableDayScheduling ==
    /\ CanBeginConfig
    /\ SaveShuffled("disable_day_scheduling",
           [settings EXCEPT !.day_scheduling_enabled = FALSE,
                            !.active_atmosphere = None])
    /\ ConfigFrame

\* update_time_atmospheres: mirror_groups and source_map, the slot written
\* together with time_id.
mirror_groups(time_id) ==
    CASE time_id = "1" -> "7"
      [] time_id = "2" -> "8"
      [] time_id = "3" -> "9"
      [] time_id = "4" -> "10"
      [] time_id = "5" -> "11"
      [] time_id = "6" -> "12"
      [] OTHER         -> mirror_map(time_id)

\* Mutant of UpdateTimeAtmospheres: only the slot named is written.
UpdateTimeAtmospheresOwnSlot(time_id, atmospheres) ==
    /\ CanBeginConfig
    /\ IF time_id \notin TimeIds THEN Reject("update_time_atmospheres", 400)
       ELSE SaveShuffled("update_time_atmospheres",
                [settings EXCEPT !.day_times[time_id] = atmospheres])
    /\ ConfigFrame

\* POST /api/day/times/<time_id>/atmospheres
UpdateTimeAtmospheres(time_id, atmospheres) ==
    /\ CanBeginConfig
    /\ IF time_id \notin TimeIds THEN Reject("update_time_atmospheres", 400)
       ELSE SaveShuffled("update_time_atmospheres",
                [settings EXCEPT !.day_times[time_id] = atmospheres,
                                 !.day_times[mirror_groups(time_id)] = atmospheres])
    /\ ConfigFrame

\* POST /api/themes/<theme_name>/interval (an interval below 1 stands for
\* every body the handler answers with 400).
UpdateThemeInterval(theme_name, interval) ==
    /\ CanBeginConfig
    /\ IF interval < 1 THEN Reject("update_theme_interval", 400)
       ELSE IF settings.themes[theme_name] = 0
       THEN Reject("update_theme_interval", 404)
       ELSE Save("update_theme_interval",
                 [settings EXCEPT
                     !.themes[theme_name] = interval,
                     !.interval = IF settings.active_theme = theme_name
                                  THEN interval ELSE @])
    /\ ConfigFrame

\* POST /api/atmospheres/<atmosphere_name>/interval
UpdateAtmosphereInterval(atmosphere_name, interval) ==
    /\ CanBeginConfig
    /\ IF interval < 1 THEN Reject("update_atmosphere_interval", 400)
       ELSE IF settings.atmospheres[atmosphere_name] = 0
       THEN Reject("update_atmosphere_interval", 404)
       ELSE Save("update_atmosphere_interval",
                 [settings EXCEPT
                     !.atmospheres[atmosphere_name] = interval,
                     !.interval = IF settings.active_atmosphere = atmosphere_name
                                  THEN interval ELSE @])
    /\ ConfigFrame

\* ---- SpecConfig: theme, atmosphere and day requests, one at a time

\* Configurations the requests start from: theme T1 and atmosphere A1
\* created, A1 holding T1, with each of them active or not.
ConfigSettings ==
    {[DefaultSettings EXCEPT
         !.themes = StoredThemes,
         !.atmospheres = [StoredAtmospheres EXCEPT !["A2"] = 0],
         !.atmosphere_themes = [@ EXCEPT !["A1"] = <<"T1">>],
         !.active_theme = theme,
         !.active_atmosphere = atmosphere,
         !.interval = IF atmosphere = "A1" THEN 300 ELSE StoredThemes[theme],
         !.shuffle_id = 5] :
        theme \in {AllImages, "T1"}, atmosphere \in {None, "A1"}}

InitConfig ==
    /\ InitOrchestrator
    /\ settings \in ConfigSettings
    /\ hour = 7
    /\ InitRequests

NextConfig ==
    \/ CreateTheme("T1", 60)
    \/ \E theme_name \in ThemeNames : DeleteTheme(theme_name)
    \/ \E theme_name \in {None, "Extras", "T1"} : SetActiveTheme(theme_name)
    \/ CreateAtmosphere("A1", 300)
    \/ \E atmosphere_name \in {AllImages, "A1"} : DeleteAtmosphere(atmosphere_name)
    \/ \E atmosphere_name \in {None, AllImages, "A1"} : SetActiveAtmosphere(atmosphere_name)
    \/ UpdateAtmosphereThemes("A1", <<"Extras">>)
    \/ \E enabled \in BOOLEAN : ToggleDayScheduling(enabled)
    \/ EnableDayScheduling
    \/ DisableDayScheduling
    \/ \E time_id \in {"1", "7", "13"}, atmospheres \in {<<>>, <<"A1">>} :
          UpdateTimeAtmospheres(time_id, atmospheres)
    \/ \E theme_name \in {AllImages, "T1"}, interval \in {0, 120} :
          UpdateThemeInterval(theme_name, interval)
    \/ \E interval \in {0, 120} : UpdateAtmosphereInterval("A1", interval)

SpecConfig == InitConfig /\ [][NextConfig]_vars

\* ---- SpecEndOfList: a video plays to its timer expiry and the display
\* ---- client reacts

\* The display client (kiosk page) when a video that was the last item of
\* the displayed order has finished: it asks for a reshuffle.  The page is
\* not part of the server; the step follows the Shuffle Engine's list of
\* reshuffle triggers.
KioskEndOfList(t) ==
    /\ timers[t] = "done"
    /\ reshuffle.pc = "idle"
    /\ LET order == ServedOrder(settings, hour) IN
       /\ order # <<>>
       /\ order[Len(order)] = starts[t].vid
    /\ \E avoid_first \in AvoidFirst, dir_order \in DirOrders :
          ReshuffleImages(avoid_first, dir_order)

\* The configurations of SpecShuffle under every stored seed.
EndOfListSettings ==
    {[s EXCEPT !.shuffle_id = g] : s \in ShuffleSettings, g \in Seeds}

InitEndOfList ==
    /\ InitOrchestrator
    /\ settings \in EndOfListSettings
    /\ hour = 7
    /\ InitRequests

\* The steps of the launch thread of the first start request and of its
\* timer.
EndOfListThread ==
    \/ ShowLoading(1)
    \/ KillExisting(1)
    \/ SpawnMpv(1)
    \/ VideoPlaying(1)
    \/ StartCancelCheck(1)
    \/ TimerNew(1)
    \/ TimerDaemon(1)
    \/ TimerStart(1)
    \/ TimerThread(1)

NextEndOfList ==
    \/ \E video_id \in Videos :
          ExecuteMpv(1, video_id, "url", ServedOrder(settings, hour))
    \/ EndOfListThread
    \/ KioskEndOfList(1)
    \/ ReshuffleThread

\* Threads, timer callbacks and request handlers that can take a step
\* eventually take it.
SpecEndOfList ==
    /\ InitEndOfList
    /\ [][NextEndOfList]_vars
    /\ WF_vars(EndOfListThread)
    /\ WF_vars(KioskEndOfList(1))
    /\ WF_vars(ReshuffleThread)

\* ---- SpecTimer: the selection is changed, then a video is started and
\* ---- its auto-transition timer is armed

\* The launch thread of the first start request up to the armed timer.
TimerLaunchThread ==
    \/ ShowLoading(1)
    \/ KillExisting(1)
    \/ SpawnMpv(1)
    \/ VideoPlaying(1)
    \/ StartCancelCheck(1)
    \/ TimerNew(1)
    \/ TimerDaemon(1)
    \/ TimerStart(1)

NextTimer ==
    \/ starts[1].pc = "idle" /\ NextConfig
    \/ \E video_id \in Videos :
          ExecuteMpv(1, video_id, "url", ServedOrder(settings, hour))
    \/ TimerLaunchThread

SpecTimer == InitConfig /\ [][NextTimer]_vars

\* ---- SpecDay: the day schedule and what it names are edited, then the
\* ---- selection is listed

\* Configurations the edits start from: theme T1 active, atmosphere A1
\* holding T1 (A2 was never created), slot 1 and its mirror 7 empty or
\* holding A1, day scheduling on or off.
DaySettings ==
    {[DefaultSettings EXCEPT
         !.themes = StoredThemes,
         !.atmospheres = [StoredAtmospheres EXCEPT !["A2"] = 0],
         !.atmosphere_themes = [@ EXCEPT !["A1"] = <<"T1">>],
         !.day_times = [@ EXCEPT !["1"] = slot, !["7"] = slot],
         !.day_scheduling_enabled = day,
         !.active_theme = "T1",
         !.interval = 60,
         !.shuffle_id = 5] :
        slot \in {<<>>, <<"A1">>}, day \in BOOLEAN}

InitDay ==
    /\ InitOrchestrator
    /\ settings \in DaySettings
    /\ hour \in {7, 19}
    /\ InitRequests

\* The edits: themes of an atmosphere, the slots, deletions, day scheduling.
DayEdit ==
    \/ \E atmosphere_name \in {AllImages, "A1"}, themes \in {<<>>, <<"Extras">>} :
          UpdateAtmosphereThemes(atmosphere_name, themes)
    \/ \E time_id \in {"1", "7", "13"}, atmospheres \in {<<>>, <<"A1">>, <<"A2">>} :
          UpdateTimeAtmospheres(time_id, atmospheres)
    \/ DeleteAtmosphere("A1")
    \/ DeleteTheme("T1")
    \/ SetActiveAtmosphere("A1")
    \/ EnableDayScheduling
    \/ DisableDayScheduling

NextDay ==
    \/ lists[1].pc = "idle" /\ DayEdit
    \/ \E enabled_only \in BOOLEAN : ListImagesAlone(1, enabled_only)
    \/ ListThread(1)
    \/ GetSettingsApi

SpecDay == InitDay /\ [][NextDay]_vars

\* ---- SpecSlots: the slots of the day schedule are edited

\* The atmosphere lists a slot is given; the names are not validated.
SlotLists == {<<>>, <<"A1">>, <<"A2", "A1">>}

NextSlots ==
    \E time_id \in TimeIds \cup {"13"}, atmospheres \in SlotLists :
        UpdateTimeAtmospheres(time_id, atmospheres)

SpecSlots == InitDay /\ [][NextSlots]_vars

\* ---- SpecClock: the time of day passes or is injected, and is asked for

\* datetime.now().hour and datetime.fromtimestamp(mock_time).hour.
Hours == 0..23

\* get_settings, defaults: 'start_hour' of each entry of day_times.
start_hour(time_id) ==
    CASE time_id = "1"  -> 6
      [] time_id = "2"  -> 8
      [] time_id = "3"  -> 10
      [] time_id = "4"  -> 12
      [] time_id = "5"  -> 14
      [] time_id = "6"  -> 16
      [] time_id = "7"  -> 18
      [] time_id = "8"  -> 20
      [] time_id = "9"  -> 22
      [] time_id = "10" -> 0
      [] time_id = "11" -> 2
      [] time_id = "12" -> 4

\* The handlers of this specification leave everything but the clock and
\* the answer alone.
ClockFrame ==
    /\ UNCHANGED <<timer_interval, video_playing, captures, thumbnail_generated,
                   show_kiosk, requestVars>>
    /\ UNCHANGED <<videoVars, mailVars>>
    /\ UNCHANGED <<settings, rng, draws, random_value, lists, reshuffle, reshuffles,
                   interval_served, cfgOp>>

\* The answer of a handler that reports get_current_time_period().
Answered(current_hour) ==
    day_status' = [current_hour |-> current_hour,
                   current_time_period |-> get_current_time_period(current_hour)]

\* GET /api/day/status
GetDayStatus ==
    /\ Answered(hour)
    /\ UNCHANGED hour
    /\ ClockFrame

\* POST /api/test/time in test mode: the hour of the timestamp given is the
\* hour of the day from now on, and the answer reports its slot.
SetMockTime(timestamp_hour) ==
    /\ hour' = timestamp_hour
    /\ Answered(timestamp_hour)
    /\ ClockFrame

\* An hour of real time passes.
HourPasses ==
    /\ hour' = (hour + 1) % 24
    /\ UNCHANGED day_status
    /\ ClockFrame

InitClock ==
    /\ InitOrchestrator
    /\ settings = DefaultSettings
    /\ hour \in Hours
    /\ InitRequests

NextClock ==
    \/ GetDayStatus
    \/ \E timestamp_hour \in Hours : SetMockTime(timestamp_hour)
    \/ HourPasses

SpecClock == InitClock /\ [][NextClock]_vars

\* ---- SpecLaunch: one video is started, or one thumbnail is asked for

InitLaunch ==
    /\ \E thumbnail_files \in SUBSET Videos : InitGlobals(thumbnail_files)
    /\ settings = DefaultSettings
    /\ hour = 7
    /\ InitRequests

\* The steps of the thread of the first start request.
LaunchThread ==
    \/ ShowLoading(1)
    \/ KillExisting(1)
    \/ SpawnMpv(1)
    \/ SpawnFails(1)
    \/ VideoPlaying(1)
    \/ StartCancelCheck(1)
    \/ TimerNew(1)
    \/ TimerDaemon(1)
    \/ TimerStart(1)
    \/ \E result \in CaptureResults : Capture(1, result)
    \/ ThumbnailSetId(1)

NextLaunch ==
    \/ \E video_id \in Videos, images \in Listings :
          ExecuteMpv(1, video_id, "url", images)
    \/ \E video_id \in Videos : GenerateThumbnail(1, video_id)
    \/ LaunchThread
    \/ MpvExits(1)
    \/ TimerThread(1)

SpecLaunch == InitLaunch /\ [][NextLaunch]_vars

\* ---- SpecStatus: requests served one after the other, the status asked once
\* at any moment

\* No start request and no stop request is being served.
Quiet ==
    /\ \A r \in Starts : starts[r].pc \in {"idle", "done", "rejected"}
    /\ \A s \in Stops : stops[s].pc \in {"idle", "done", "failed"}

\* GET /api/videos/playback-status, first part:
\* is_playing = (pgrep -x mpv).returncode == 0
StatusPgrep ==
    /\ playback_status.pc = "idle"
    /\ ~playback_status.answered
    /\ playback_status' = [playback_status EXCEPT !.pc = "respond",
                                                  !.is_playing = procs # {}]
    /\ UNCHANGED <<videoVars, mailVars, cfgVars>>
    /\ UNCHANGED <<timer_interval, video_playing, captures, thumbnail_generated,
                   show_kiosk, day_status, current_kiosk_image, kiosk_state, loaded>>

\* Second part: the global current_video_id is filled from settings.json
\* when it is None, and the answer is built.
StatusRespond ==
    /\ playback_status.pc = "respond"
    /\ current_video_id' = IF current_video_id = None THEN persisted_video_id
                           ELSE current_video_id
    /\ playback_status' =
           [pc |-> "idle", is_playing |-> FALSE, answered |-> TRUE,
            playing |-> playback_status.is_playing,
            video_id |-> IF playback_status.is_playing THEN current_video_id' ELSE None,
            running |-> {starts[p].vid : p \in procs}]
    /\ UNCHANGED <<procs, video_transition_timer, timers, persisted_video_id,
                   video_next_item, thumbs, starts, stops, lastStart, superseded,
                   stopLast, entryLog>>
    /\ UNCHANGED <<mailVars, cfgVars>>
    /\ UNCHANGED <<timer_interval, video_playing, captures, thumbnail_generated,
                   show_kiosk, day_status, current_kiosk_image, kiosk_state, loaded>>

GetPlaybackStatus == StatusPgrep \/ StatusRespond

NextStatus ==
    \/ \E r \in Starts : Quiet /\ StartRequest(r)
    \/ \E r \in Starts : StartThread(r)
    \/ \E t \in Starts : TimerThread(t)
    \/ \E s \in Stops, jump_to \in JumpTargets : Quiet /\ StopMpv(s, jump_to)
    \/ \E s \in Stops : StopHandler(s) \/ StopThread(s)
    \/ \E p \in Starts : MpvExits(p)
    \/ GetPlaybackStatus

SpecStatus == Init /\ [][NextStatus]_vars

\* ---- SpecRace: listing and reshuffle requests handled concurrently

\* The threaded server handles every request in a thread of its own; the
\* generator of module random is shared by all of them.
NextRace ==
    \/ ListImages(1, TRUE) \/ ListThread(1)
    \/ \E avoid_first \in AvoidFirst, dir_order \in DirOrders :
          ReshuffleImages(avoid_first, dir_order)
    \/ ReshuffleThread

SpecRace == InitShuffle /\ [][NextRace]_vars

\* ---- SpecKiosk: one launch, the display client reporting what it shows

\* Names the display client may report: nothing, an image, a video as it
\* is listed (its id), a video as jump commands name it.
ReportedNames == {None, "img1", "v1", "v2", "video:v1"}

\* image_name.startswith('video:')
StartsWithVideo(image_name) == image_name \in {"video:v1", "video:v2"}

KioskFrame ==
    /\ UNCHANGED <<procs, video_transition_timer, timers, persisted_video_id,
                   video_next_item, thumbs, starts, stops, lastStart, superseded,
                   stopLast, entryLog>>
    /\ UNCHANGED <<mailVars, cfgVars>>
    /\ UNCHANGED <<timer_interval, video_playing, captures, thumbnail_generated,
                   show_kiosk, day_status, playback_status, loaded>>

\* POST /api/kiosk/current-image
CurrentImagePost(image_name) ==
    /\ current_kiosk_image' = image_name
    /\ current_video_id' =
           IF image_name # None /\ ~StartsWithVideo(image_name) THEN None
           ELSE current_video_id
    /\ UNCHANGED kiosk_state
    /\ KioskFrame

\* GET /api/kiosk/current-image
CurrentImageGet ==
    /\ kiosk_state' = [current_image |-> current_kiosk_image,
                       current_video_id |-> current_video_id]
    /\ UNCHANGED <<current_kiosk_image, current_video_id>>
    /\ KioskFrame

NextKiosk ==
    \/ NextLaunch
    \/ \E image_name \in ReportedNames : CurrentImagePost(image_name)
    \/ CurrentImageGet

SpecKiosk == InitLaunch /\ [][NextKiosk]_vars

\* ---- SpecWrites: the writers of current_video_id next to configuration requests

\* Every writer of settings['current_video_id'] runs
\*     settings = get_settings(); settings['current_video_id'] = ...;
\*     save_settings(settings)
\* in its own thread: the document is loaded in one step and written back
\* whole in a later one.

WritesFrame ==
    /\ UNCHANGED <<timer_interval, video_playing, captures, thumbnail_generated,
                   show_kiosk, day_status, playback_status, current_kiosk_image,
                   kiosk_state>>
    /\ UNCHANGED <<rng, draws, random_value, hour, lists, reshuffle, reshuffles,
                   interval_served, cfgOp>>
    /\ UNCHANGED mailVars

\* execute_mpv: current_video_id = video_id; settings = get_settings()
ExecuteLoad(r, video_id) ==
    /\ CanBegin(r)
    /\ current_video_id' = video_id
    /\ loaded' = [loaded EXCEPT !["execute_mpv"] = settings]
    /\ starts' = [starts EXCEPT ![r] =
           [pc |-> "save", kind |-> "execute", vid |-> video_id, att |-> 0]]
    /\ UNCHANGED <<procs, video_transition_timer, timers, persisted_video_id,
                   video_next_item, thumbs, stops, lastStart, superseded, stopLast,
                   entryLog, settings>>
    /\ WritesFrame

\* execute_mpv: settings['current_video_id'] = video_id; save_settings(settings);
\* then the next item, the URL check and thread.start().
ExecuteStore(r, url, images) ==
    /\ starts[r].pc = "save"
    /\ settings' = loaded["execute_mpv"]
    /\ loaded' = [loaded EXCEPT !["execute_mpv"] = DefaultSettings]
    /\ persisted_video_id' = starts[r].vid
    /\ video_next_item' = NextItemAfter(images, starts[r].vid)
    /\ IF url = None
       THEN /\ starts' = SetPc(r, "rejected")
            /\ UNCHANGED <<lastStart, superseded, stopLast>>
       ELSE /\ starts' = SetPc(r, "loading")
            /\ Accept(r)
    /\ UNCHANGED <<procs, video_transition_timer, timers, current_video_id, thumbs,
                   stops, entryLog>>
    /\ WritesFrame

\* auto_transition: settings = get_settings()
AutoLoad(t) ==
    /\ timers[t] = "cb_save"
    /\ loaded' = [loaded EXCEPT !["auto_transition"] = settings]
    /\ timers' = [timers EXCEPT ![t] = "cb_store"]
    /\ UNCHANGED <<procs, video_transition_timer, current_video_id,
                   persisted_video_id, video_next_item, thumbs, starts, stops,
                   lastStart, superseded, stopLast, entryLog, settings>>
    /\ WritesFrame

\* auto_transition: settings['current_video_id'] = None; save_settings(settings)
AutoStore(t) ==
    /\ timers[t] = "cb_store"
    /\ settings' = loaded["auto_transition"]
    /\ loaded' = [loaded EXCEPT !["auto_transition"] = DefaultSettings]
    /\ persisted_video_id' = None
    /\ timers' = [timers EXCEPT ![t] = "cb_emit"]
    /\ UNCHANGED <<procs, video_transition_timer, current_video_id, video_next_item,
                   thumbs, starts, stops, lastStart, superseded, stopLast, entryLog>>
    /\ WritesFrame

\* stop_mpv_async: current_video_id = None; settings = get_settings()
StopLoad(s) ==
    /\ stops[s].pc = "k_clear"
    /\ current_video_id' = None
    /\ loaded' = [loaded EXCEPT !["stop_mpv_async"] = settings]
    /\ stops' = SetStopPc(s, "k_store")
    /\ UNCHANGED <<procs, video_transition_timer, timers, persisted_video_id,
                   video_next_item, thumbs, starts, lastStart, superseded, stopLast,
                   entryLog, settings>>
    /\ WritesFrame

\* stop_mpv_async: settings['current_video_id'] = None; save_settings(settings)
StopStore(s) ==
    /\ stops[s].pc = "k_store"
    /\ settings' = loaded["stop_mpv_async"]
    /\ loaded' = [loaded EXCEPT !["stop_mpv_async"] = DefaultSettings]
    /\ persisted_video_id' = None
    /\ stops' = SetStopPc(s, "k_kill")
    /\ UNCHANGED <<procs, video_transition_timer, timers, current_video_id,
                   video_next_item, thumbs, starts, lastStart, superseded, stopLast,
                   entryLog>>
    /\ WritesFrame

\* The switches of theme, atmosphere and day scheduling.
Switch ==
    \/ SetActiveTheme("T1")
    \/ SetActiveAtmosphere("A1")
    \/ EnableDayScheduling
    \/ DisableDayScheduling

\* One video is started, plays to its timer or is stopped.
NextWrites ==
    \/ Switch
    \/ \E video_id \in Videos : ExecuteLoad(1, video_id)
    \/ \E url \in {None, "url"}, images \in Listings : ExecuteStore(1, url, images)
    \/ ShowLoading(1) \/ KillExisting(1) \/ SpawnMpv(1) \/ VideoPlaying(1)
    \/ StartCancelCheck(1) \/ TimerNew(1) \/ TimerDaemon(1) \/ TimerStart(1)
    \/ TimerFire(1) \/ AutoClearHandle(1) \/ AutoKill(1) \/ AutoLoad(1)
    \/ AutoStore(1) \/ AutoShowKiosk(1)
    \/ \E jump_to \in JumpTargets : starts[1].pc = "done" /\ StopMpv(1, jump_to)
    \/ StopHandler(1)
    \/ StopLoad(1) \/ StopStore(1) \/ StopKill(1) \/ StopShowKiosk(1)

\* Theme 'All Images' active, theme T1 and atmosphere A1 created.
InitWrites ==
    /\ InitOrchestrator
    /\ settings \in {s \in ConfigSettings :
                       s.active_theme = AllImages /\ s.active_atmosphere = None}
    /\ hour = 7
    /\ InitRequests

SpecWrites == InitWrites /\ [][NextWrites]_vars

\* ====================================================================== claims

\* ---- video orchestrator (Spec)

\* C1: for every interleaving of start requests, stop requests and timer
\* expiries, at most one mpv player process is alive at any instant.
SinglePlayerProcess == Cardinality(procs) <= 1

\* C2: at most one auto-transition timer is pending at any instant, and a
\* pending timer is the one the global handle video_transition_timer refers to.
SinglePendingTimer ==
    /\ Cardinality({t \in Starts : Pending(t)}) <= 1
    /\ \A t \in Starts : Pending(t) => video_transition_timer = t

\* C3: a timer that was pending when a later start request was accepted never
\* kills the player process and never emits show_kiosk afterwards.
SupersededTimerNeverActs ==
    [][\A t \in superseded :
          timers[t] \in {"cb_kill", "cb_emit"} => timers'[t] = timers[t]]_vars

\* The order the entry actions of a start request are claimed to have.
EntryRank(a) ==
    CASE a = "cancel"  -> 1
      [] a = "kill"    -> 2
      [] a = "loading" -> 3
      [] a = "spawn"   -> 4

\* C4: on every execute_mpv start request the entry actions occur in the
\* order: cancel the outstanding timer, terminate the previous player, send
\* show_loading, spawn the new player.
EntryActionsOrdered ==
    \A r \in Starts : starts[r].kind = "execute" =>
        \A i, j \in 1..Len(entryLog[r]) :
            i < j => EntryRank(entryLog[r][i]) < EntryRank(entryLog[r][j])

\* No thread is left to act and no timer is pending or running its callback.
Quiescent ==
    /\ \A r \in Starts : starts[r].pc \in {"idle", "rejected", "done"}
    /\ \A s \in Stops : stops[s].pc \in {"idle", "failed", "done"}
    /\ \A t \in Starts : timers[t] \in {"none", "created", "precancelled", "cancelled", "done"}

\* C5: when a stop request was accepted and no start request after it, the
\* system comes to rest with no player process running and no timer pending:
\* once every thread has ended and no timer is left, no player is alive.
StopEndsPlayback == (stopLast /\ Quiescent) => procs = {}

\* ---- command channel

\* Poll q answered with a command.
Returned(q) == polls[q].pc = "done" /\ polls[q].cmd # NoCommand

\* Some poll has read the command of send n into its local cmd.
Taken(n) == \E q \in Polls : polls[q].cmd.id = n

\* A later send wrote over the command of send n while it was pending.
Replaced(n) == \E k \in Sends : sends[k].replaced = n

\* C6 (SpecMailboxSeq): a poll at time t that finds the command enqueued at
\* t0 pending returns it if t - t0 < 5 and returns no command if t - t0 >= 5;
\* no poll returns a command at a time t >= t0 + 5.
DeliveredWithinTTL ==
    \A q \in Polls : polls[q].pc = "done" =>
        /\ polls[q].saw # 0 =>
              LET t0 == sends[polls[q].saw].stamp
                  t == polls[q].tread IN
              /\ t - t0 < 5 => polls[q].cmd = CommandValue(polls[q].saw)
              /\ t - t0 >= 5 => polls[q].cmd = NoCommand
        /\ polls[q].cmd # NoCommand =>
              polls[q].tread - sends[polls[q].cmd.id].stamp < 5

\* C6 witness: one poll returned a command that was some seconds old and
\* another found a command exactly 5 seconds old and returned none.
DeliveredWithinTTLWitness ==
    /\ \E q \in Polls : /\ Returned(q)
                        /\ polls[q].tread - sends[polls[q].cmd.id].stamp >= 1
    /\ \E q \in Polls : /\ polls[q].pc = "done"
                        /\ polls[q].saw # 0
                        /\ polls[q].cmd = NoCommand
                        /\ polls[q].tread - sends[polls[q].saw].stamp = 5

\* C7 (SpecMailbox): each enqueued command is returned by at most one poll,
\* also when polls run concurrently.
DeliveredAtMostOnce ==
    \A q1, q2 \in Polls :
        (q1 # q2 /\ Returned(q1) /\ Returned(q2)) => polls[q1].cmd.id # polls[q2].cmd.id

\* C8 (SpecMailbox): enqueue and poll exclude each other: an enqueued command
\* that no poll has read and no later enqueue has replaced is pending with its
\* own issue time (a poll never erases it), and no poll judges a pending
\* command against a timestamp other than its own.
MailboxMutualExclusion ==
    /\ \A n \in Sends :
          (sends[n].pc \in {"emit", "done"} /\ ~Replaced(n) /\ ~Taken(n)) =>
              /\ current_command = CommandValue(n)
              /\ command_timestamp = sends[n].stamp
    /\ \A q \in Polls : ~polls[q].misjudged

\* C9 (SpecMailboxSeq): a poll that finds a pending command 5 seconds old or
\* older returns no command and leaves the slot empty.
ExpiredEntryCleared ==
    [][\A q \in Polls :
          (polls[q].pc = "age" /\ polls'[q].pc = "done") =>
              /\ polls'[q].cmd = NoCommand
              /\ current_command' = NoCommand]_vars

\* C10 (SpecMailboxSeq): when enqueue(c2) follows enqueue(c1) with no poll in
\* between, the slot holds c2 with c2's issue time until a poll reads it or a
\* later enqueue replaces it, a poll within 5 seconds of c2 returns c2, and
\* no poll ever returns c1.
EnqueueOverwrites ==
    \A n \in Sends : sends[n].replaced # 0 =>
        /\ \A q \in Polls : polls[q].cmd.id # sends[n].replaced
        /\ (sends[n].pc \in {"emit", "done"} /\ ~Replaced(n) /\ ~Taken(n)) =>
              /\ current_command = CommandValue(n)
              /\ command_timestamp = sends[n].stamp
        /\ \A q \in Polls :
              (polls[q].pc = "done" /\ polls[q].saw = n
                  /\ polls[q].tread - sends[n].stamp < 5) =>
                  polls[q].cmd = CommandValue(n)

\* C10 witness: a 'jump' replaced a pending 'next' and a poll returned the jump.
EnqueueOverwritesWitness ==
    \E n \in Sends, q \in Polls :
        /\ sends[n].replaced # 0
        /\ sends[sends[n].replaced].command = "next"
        /\ sends[n].command = "jump"
        /\ Returned(q)
        /\ polls[q].cmd = CommandValue(n)

\* The body of a send request names no recognized command kind, or is a jump
\* without a target.
InvalidBody(body) ==
    \/ body.command \notin {"next", "prev", "pause", "play", "reload", "jump"}
    \/ body.command = "jump" /\ body.image_name = None

\* C11 (SpecMailboxSeq): a send request with an unrecognized command kind, or
\* a jump without a target, is answered 400 and changes nothing: the pending
\* command and its timestamp stay as they are and no remote_command is
\* broadcast, neither when it is rejected nor later.
RejectedSendChangesNothing ==
    [][\A n \in Sends :
          /\ (sends[n].pc = "idle" /\ sends'[n].pc # "idle" /\ InvalidBody(sends'[n])) =>
                /\ sends'[n].pc = "rejected"
                /\ current_command' = current_command
                /\ command_timestamp' = command_timestamp
                /\ remote_emits' = remote_emits
          /\ sends[n].pc = "rejected" =>
                /\ sends'[n] = sends[n]
                /\ n \notin remote_emits'
                /\ current_command'.id # n]_vars

\* C11 witness: a jump without a target and an unrecognized kind can each be
\* rejected while a command is pending.
RejectedSendChangesNothingWitness ==
    \E n \in Sends :
        /\ sends[n].pc = "rejected"
        /\ InvalidBody(sends[n])
        /\ current_command # NoCommand

\* C12 (SpecMailboxSeq): every command accepted by POST /api/control/send has
\* also been broadcast as a 'remote_command' event when the request is answered.
AcceptedCommandBroadcast ==
    \A n \in Sends : sends[n].pc = "done" => n \in remote_emits

\* ---- reshuffle (SpecShuffle) and listing (SpecSelection)

\* The reshuffle request was answered with success.
ReshuffleDone == reshuffle.pc = "done"

\* C13 (SpecShuffle): when the eligible set served by
\* GET /api/images?enabled_only=true has at least 2 items and a reshuffle
\* with avoid_first = x succeeds without a warning, the first item of the
\* order served for the stored shuffle_id is not x.
ReshuffleAvoidsFirst ==
    (/\ ReshuffleDone
     /\ reshuffle.avoid_first # None
     /\ ~reshuffle.warning
     /\ Len(ListItems(settings, hour, TRUE)) >= 2)
        => ServedOrder(settings, hour)[1] # reshuffle.avoid_first

\* The first item of the order the reshuffle request itself computes for the
\* seed it stored (None: its list is empty).
OwnFirst ==
    IF reshuffle.images = <<>> THEN None
    ELSE Shuffle(reshuffle.images, settings.shuffle_id)[1]

\* C14 as claimed (SpecShuffle): a reshuffle with avoid_first draws at most
\* 100 candidates, stores a newly drawn shuffle_id, and whenever the order of
\* the stored seed still begins with the avoided item (all candidates
\* rejected, or a single eligible item equal to the avoided one) the answer
\* carries a warning.
ReshuffleWarnsWhenNotAvoided ==
    (ReshuffleDone /\ reshuffle.avoid_first # None) =>
        /\ reshuffle.attempt <= max_attempts
        /\ settings.shuffle_id = random_value
        /\ OwnFirst = reshuffle.avoid_first => reshuffle.warning

\* C14 as amended (SpecShuffle): a reshuffle with avoid_first draws at most
\* 100 candidates and stores a newly drawn shuffle_id; when its image list
\* has at least 2 items the answer carries a warning exactly when all 100
\* candidates were rejected, and the stored order begins with the avoided
\* item only then; when the list has at most one item a single seed is drawn
\* and the answer carries no warning, also when that item is the avoided one.
ReshuffleWarnsWhenExhausted ==
    (ReshuffleDone /\ reshuffle.avoid_first # None) =>
        /\ reshuffle.attempt <= max_attempts
        /\ settings.shuffle_id = random_value
        /\ settings.shuffle_id = reshuffle.new_shuffle_id
        /\ IF Len(reshuffle.images) >= 2
           THEN /\ reshuffle.attempt >= 1
                /\ reshuffle.warning <=> OwnFirst = reshuffle.avoid_first
                /\ reshuffle.warning => reshuffle.attempt = max_attempts
           ELSE /\ reshuffle.attempt = 0
                /\ ~reshuffle.warning

\* C14 witness: all 100 candidates were rejected and the answer carries the
\* warning.
ReshuffleWarnsWhenExhaustedWitness ==
    /\ ReshuffleDone
    /\ reshuffle.warning
    /\ reshuffle.attempt = max_attempts
    /\ OwnFirst = reshuffle.avoid_first

\* C15 (SpecSelection): two GET /api/images requests with the same query that
\* read the same stored shuffle_id, the configuration being otherwise
\* unchanged, return the same items in the same order.
ListingDeterministic ==
    \A k1, k2 \in 1..MaxLists :
        (/\ lists[k1].pc = "done"
         /\ lists[k2].pc = "done"
         /\ lists[k1].enabled_only = lists[k2].enabled_only
         /\ lists[k1].seed = lists[k2].seed)
            => lists[k1].answer = lists[k2].answer

\* C15 witness: two successive listings of three or more items returned the
\* same order, which is not the order before shuffling.
ListingDeterministicWitness ==
    /\ lists[1].pc = "done"
    /\ lists[2].pc = "done"
    /\ lists[1].enabled_only
    /\ lists[2].enabled_only
    /\ lists[1].seed = lists[2].seed
    /\ Len(lists[1].answer) >= 3
    /\ lists[1].answer # lists[1].items
    /\ lists[1].answer = lists[2].answer


\* ---- C19, C20: the selection and the interval a configuration resolves to

ItemThemes(s, item) ==
    IF item \in Range(Images) THEN Range(s.image_themes[item])
    ELSE Range(s.video_themes[item])

EnabledItems(s) ==
    {item \in ItemNames :
        IF item \in Range(Images) THEN s.enabled_images[item] ELSE s.enabled_videos[item]}

ItemsOfThemes(s, themes) ==
    IF themes = {} THEN EnabledItems(s)
    ELSE {item \in EnabledItems(s) : ItemThemes(s, item) \cap themes # {}}

SlotAtmospheres(s, current_hour) ==
    get_active_atmospheres_for_time(get_current_time_period(current_hour), s)

SlotThemes(s, current_hour) ==
    UNION {Range(s.atmosphere_themes[a]) : a \in Range(SlotAtmospheres(s, current_hour))}

\* The item set as the precedence is stated: the active atmosphere counts
\* only when it is not 'All Images'.
StatedItems(s, current_hour) ==
    IF s.day_scheduling_enabled THEN ItemsOfThemes(s, SlotThemes(s, current_hour))
    ELSE IF s.active_atmosphere # None /\ s.active_atmosphere # AllImages
    THEN ItemsOfThemes(s, Range(s.atmosphere_themes[s.active_atmosphere]))
    ELSE IF s.active_theme # None /\ s.active_theme # AllImages
    THEN ItemsOfThemes(s, {s.active_theme})
    ELSE EnabledItems(s)

\* The item set with any active atmosphere, 'All Images' included, deciding
\* before the active theme.
AtmosphereFirstItems(s, current_hour) ==
    IF s.day_scheduling_enabled THEN ItemsOfThemes(s, SlotThemes(s, current_hour))
    ELSE IF s.active_atmosphere = AllImages THEN EnabledItems(s)
    ELSE IF s.active_atmosphere # None
    THEN ItemsOfThemes(s, Range(s.atmosphere_themes[s.active_atmosphere]))
    ELSE IF s.active_theme # None /\ s.active_theme # AllImages
    THEN ItemsOfThemes(s, {s.active_theme})
    ELSE EnabledItems(s)

EnabledListingDone(k) == lists[k].pc = "done" /\ lists[k].enabled_only

\* C19 (as stated): an enabled-only listing holds exactly the items of rule
\* (1) day scheduling, else (2) an active atmosphere other than 'All
\* Images', else (3) an active theme other than 'All Images', else (4) all
\* enabled items.
ListingFollowsStatedPrecedence ==
    \A k \in 1..MaxLists :
        EnabledListingDone(k) => Range(lists[k].answer) = StatedItems(settings, hour)

\* C19 (amended): an enabled-only listing holds exactly the items of rule
\* (1) day scheduling, else (2) any active atmosphere, 'All Images' or an
\* empty theme list meaning all enabled items, else (3) an active theme
\* other than 'All Images', else (4) all enabled items; it holds no
\* disabled item, and an item without themes only when unfiltered.
ListingFollowsPrecedence ==
    \A k \in 1..MaxLists :
        EnabledListingDone(k) =>
            /\ Range(lists[k].answer) = AtmosphereFirstItems(settings, hour)
            /\ Range(lists[k].answer) \subseteq EnabledItems(settings)
            /\ Len(lists[k].answer) = Cardinality(Range(lists[k].answer))
            /\ "v2" \in Range(lists[k].answer) =>
                   Range(lists[k].answer) = EnabledItems(settings)

\* C19 witness: with day scheduling off, the 'All Images' atmosphere active
\* and theme T1 active, a finished enabled-only listing holds an item
\* outside T1.
ListingFollowsPrecedenceWitness ==
    \E k \in 1..MaxLists :
        /\ EnabledListingDone(k)
        /\ ~settings.day_scheduling_enabled
        /\ settings.active_atmosphere = AllImages
        /\ settings.active_theme = "T1"
        /\ "v2" \in Range(lists[k].answer)

FirstExists(s, current_hour) == s.atmospheres[SlotAtmospheres(s, current_hour)[1]] # 0

\* The interval as the precedence is stated, first match winning.
StatedInterval(s, current_hour) ==
    IF s.day_scheduling_enabled
    THEN s.atmospheres[SlotAtmospheres(s, current_hour)[1]]
    ELSE IF s.active_atmosphere # None /\ s.active_atmosphere # AllImages
    THEN s.atmospheres[s.active_atmosphere]
    ELSE IF s.active_theme # None /\ s.active_theme # AllImages
    THEN s.themes[s.active_theme]
    ELSE s.interval

\* The interval with a rule applying only when the atmosphere or theme it
\* names exists, 'All Images' included.
ExistingFirstInterval(s, current_hour) ==
    IF s.day_scheduling_enabled /\ FirstExists(s, current_hour)
    THEN s.atmospheres[SlotAtmospheres(s, current_hour)[1]]
    ELSE IF s.active_atmosphere # None /\ s.atmospheres[s.active_atmosphere] # 0
    THEN s.atmospheres[s.active_atmosphere]
    ELSE IF s.active_theme # None /\ s.themes[s.active_theme] # 0
    THEN s.themes[s.active_theme]
    ELSE s.interval

IntervalServed == interval_served # 0

\* C20 (as stated): the interval served is that of (1) the first atmosphere
\* of the slot under day scheduling, else (2) the active atmosphere when it
\* is not 'All Images', else (3) the active theme when it is not 'All
\* Images', else (4) the stored interval, with no fall-through.
IntervalFollowsStatedPrecedence ==
    IntervalServed => interval_served = StatedInterval(settings, hour)

\* C20 (amended): the interval served is that of (1) the first atmosphere of
\* the slot under day scheduling if that atmosphere exists, else (2) the
\* active atmosphere if it exists, 'All Images' included, else (3) the
\* active theme if it exists, 'All Images' included, else (4) the stored
\* interval.
IntervalFollowsPrecedence ==
    IntervalServed => interval_served = ExistingFirstInterval(settings, hour)

\* C20 witness: under day scheduling the interval of the slot's first
\* atmosphere is served while the active atmosphere and the active theme
\* have other intervals.
IntervalFollowsPrecedenceWitness ==
    /\ IntervalServed
    /\ settings.day_scheduling_enabled
    /\ SlotAtmospheres(settings, hour) = <<"A2", "A1">>
    /\ settings.active_atmosphere = "A1"
    /\ settings.active_theme = "T1"
    /\ interval_served = 900


\* ---- C16, C17: requests that replace the shuffle seed

\* The requests that switch what is shown.
SwitchOps ==
    {"set_active_theme", "set_active_atmosphere", "clear_active_atmosphere",
     "toggle_day_scheduling", "enable_day_scheduling", "disable_day_scheduling",
     "update_time_atmospheres"}

\* The step stores a seed drawn in it.
SeedReplaced == draws' # draws /\ settings'.shuffle_id = random_value'

\* C16: a successful request that sets the active theme (also to the theme
\* already active), sets or clears the active atmosphere, enables, disables
\* or toggles day scheduling, or edits a day slot draws a new seed and
\* stores it as shuffle_id.
SwitchDrawsSeed ==
    [][(cfgOp'.count # cfgOp.count /\ cfgOp'.op \in SwitchOps /\ cfgOp'.status = 200)
          => SeedReplaced]_vars

\* C16 witness: the theme already active was set again and the seed stored
\* is the one just drawn.
SwitchDrawsSeedWitness ==
    /\ cfgOp.op = "set_active_theme"
    /\ cfgOp.status = 200
    /\ cfgOp.theme_before = settings.active_theme
    /\ cfgOp.atmosphere_before = settings.active_atmosphere
    /\ draws = 1
    /\ settings.shuffle_id = random_value

\* The step changes the active theme, the active atmosphere, day scheduling
\* or a slot assignment.
SelectionChanged ==
    \/ settings'.active_theme # settings.active_theme
    \/ settings'.active_atmosphere # settings.active_atmosphere
    \/ settings'.day_scheduling_enabled # settings.day_scheduling_enabled
    \/ settings'.day_times # settings.day_times

\* C17: every request that changes the active theme, the active atmosphere
\* or a slot assignment replaces shuffle_id, deleting the active theme and
\* deleting the active atmosphere included.
SelectionChangeReplacesSeed ==
    [][SelectionChanged => SeedReplaced]_vars


\* ---- C18: the last video of the displayed order finishes

\* The video of the first start request was last in the displayed order, its
\* timer callback has completed and no reshuffle was asked for yet.
LastVideoFinished ==
    /\ timers[1] = "done"
    /\ reshuffle.pc = "idle"
    /\ ServedOrder(settings, hour) # <<>>
    /\ ServedOrder(settings, hour)[Len(ServedOrder(settings, hour))] = starts[1].vid

\* A reshuffle has been answered and the stored seed is the one it drew last.
NewSeedStored ==
    /\ reshuffle.pc = "done"
    /\ settings.shuffle_id = reshuffle.new_shuffle_id
    /\ random_value = reshuffle.new_shuffle_id
    /\ draws + reshuffle.attempt > 0

TimerCreated(r) == timers[r] = "none" /\ timers'[r] # "none"

\* C21: the auto-transition timer created when a video enters Playing has
\* as its duration the interval get_current_interval resolves for the
\* selection active at that moment, whatever the day scheduling, the
\* active atmosphere and the active theme are.
TimerUsesResolvedInterval ==
    [][\A r \in Starts :
          TimerCreated(r) => timer_interval'[r] = get_current_interval(settings, hour)]_vars

\* ---------------------------------------------------------------- C22

\* Day scheduling is on and the slot the current hour resolves to holds no
\* atmosphere.
EmptySlot ==
    /\ settings.day_scheduling_enabled
    /\ settings.day_times[mirror_map(get_current_time_period(hour))] = <<>>

\* C22: with day scheduling on and no atmosphere assigned to the current
\* slot, the scheduler returns the 'All Images' atmosphere, never an empty
\* list, and an enabled-only listing holds every enabled item, so it is
\* not empty while enabled items exist.
EmptySlotShowsEverything ==
    EmptySlot =>
        /\ SlotAtmospheres(settings, hour) = <<AllImages>>
        /\ \A k \in 1..MaxLists :
              EnabledListingDone(k) => Range(lists[k].answer) = EnabledItems(settings)

\* ---------------------------------------------------------------- C23

\* The configuration without its references to themes and atmospheres
\* that do not exist: slots keep the atmospheres that exist, atmospheres
\* keep the themes that exist.
WithoutDangling(s) ==
    LET AtmosphereExists(a) == s.atmospheres[a] # 0
        ThemeExists(th) == s.themes[th] # 0
    IN [s EXCEPT
           !.day_times = [time_id \in DOMAIN s.day_times |->
                             SelectSeq(s.day_times[time_id], AtmosphereExists)],
           !.atmosphere_themes = [a \in DOMAIN s.atmosphere_themes |->
                             IF AtmosphereExists(a)
                             THEN SelectSeq(s.atmosphere_themes[a], ThemeExists)
                             ELSE <<>>]]

\* The themes that exist.
ExistingThemes(s) == {th \in ThemeNames : s.themes[th] # 0}

\* C23: a reference to a theme or atmosphere that does not exist (a slot
\* naming a deleted atmosphere, an atmosphere naming a deleted theme)
\* contributes no items to an enabled-only listing: every item of a filtered
\* answer is there for an existing theme, and the answer holds no item that
\* the configuration without the reference would not list, so the reference
\* does not widen the result.
DanglingContributesNothing ==
    \A k \in 1..MaxLists :
        EnabledListingDone(k) =>
            LET allowed == AllowedThemes(settings, hour, TRUE) IN
            /\ allowed.filtered =>
                  \A item \in Range(lists[k].answer) :
                      ItemThemes(settings, item) \cap allowed.themes
                          \cap ExistingThemes(settings) # {}
            /\ Range(lists[k].answer) \subseteq
                  Range(ListItems(WithoutDangling(settings), hour, TRUE))

\* ---------------------------------------------------------------- C24

\* What a slot resolves to given the list stored under its own id.
ResolvedFrom(list) == IF list = <<>> THEN <<AllImages>> ELSE list

\* C24: after any sequence of update_time_atmospheres requests, on source
\* or mirror slots, each of the 12 slots stores the same list as its
\* mirror peer, and the two resolve to the same list, the one stored.
MirrorSlotsAgree ==
    \A time_id \in TimeIds :
        LET peer == mirror_groups(time_id) IN
        /\ settings.day_times[time_id] = settings.day_times[peer]
        /\ get_active_atmospheres_for_time(time_id, settings)
              = get_active_atmospheres_for_time(peer, settings)
        /\ get_active_atmospheres_for_time(time_id, settings)
              = ResolvedFrom(settings.day_times[time_id])

\* C24 (witness): two accepted edits left slot 9 with one list and slot 4
\* with another.
MirrorSlotsAgreeWitness ==
    /\ cfgOp.op = "update_time_atmospheres" /\ cfgOp.status = 200 /\ cfgOp.count = 2
    /\ settings.day_times["9"] = <<"A1">>
    /\ settings.day_times["4"] = <<"A2", "A1">>

\* ---------------------------------------------------------------- C25

\* C25: get_current_time_period maps every hour 0..23, real or injected,
\* to one of the 12 slots, each slot being the answer for some hour: the
\* slot whose start hour s has s <= hour < s + 2, so that hour 23 gives the
\* slot starting at 22 and hour 0 the slot starting at 0.
TimePeriodCoversHour ==
    /\ \A time_id \in TimeIds :
          \E current_hour \in Hours : get_current_time_period(current_hour) = time_id
    /\ day_status # NoDayStatus =>
          LET current_hour == day_status.current_hour
              time_id == day_status.current_time_period
          IN /\ current_hour \in Hours
             /\ time_id \in TimeIds
             /\ start_hour(time_id) <= current_hour
             /\ current_hour < start_hour(time_id) + 2
             /\ current_hour = 23 => start_hour(time_id) = 22
             /\ current_hour = 0 => start_hour(time_id) = 0

\* C25 (witness): the slot was answered at 23 h, and midnight has passed since.
TimePeriodCoversHourWitness ==
    /\ hour = 0
    /\ day_status.current_hour = 23
    /\ day_status.current_time_period = "9"

\* ---------------------------------------------------------------- C26

\* DELETE /api/themes/<theme_name> was accepted in this step and removed
\* theme_name.
ThemeDeleted(theme_name) ==
    /\ cfgOp'.count # cfgOp.count
    /\ cfgOp'.op = "delete_theme" /\ cfgOp'.status = 200
    /\ settings.themes[theme_name] # 0
    /\ settings'.themes[theme_name] = 0

\* C26: after a theme is deleted no item, image or video, has it in its
\* theme set, and if it was the active theme the active theme is 'All
\* Images'.
DeleteThemeClearsItems ==
    [][\A theme_name \in ThemeNames :
          ThemeDeleted(theme_name) =>
              /\ \A item \in ItemNames : theme_name \notin ItemThemes(settings', item)
              /\ settings.active_theme = theme_name =>
                    settings'.active_theme = AllImages]_vars

\* ---------------------------------------------------------------- C27

\* The theme and atmosphere names that cannot be deleted.
ProtectedThemes == {AllImages, "Extras"}

\* C27: whatever themes and atmospheres are created and deleted, the
\* settings hold the themes 'All Images' and 'Extras' and the atmosphere
\* 'All Images', and a request to delete one of them is answered 400 and
\* changes nothing of the configuration.
ProtectedNamesStay ==
    [][/\ \A theme_name \in ProtectedThemes : settings'.themes[theme_name] # 0
       /\ settings'.atmospheres[AllImages] # 0
       /\ \A theme_name \in ProtectedThemes :
             DeleteTheme(theme_name) => cfgOp'.status = 400 /\ settings' = settings
       /\ DeleteAtmosphere(AllImages) => cfgOp'.status = 400 /\ settings' = settings]_vars

\* C27 (witness): a theme was deleted, then the deletion of a protected
\* theme was refused.
ProtectedNamesStayWitness ==
    /\ cfgOp.op = "delete_theme" /\ cfgOp.status = 400 /\ cfgOp.count = 2
    /\ settings.themes["T1"] = 0
    /\ settings.themes["Extras"] # 0

\* ---------------------------------------------------------------- C28

\* The item following video_id in a display order the server lists.
FollowsInOrder(item, video_id) ==
    \E images \in Listings : item = NextItemAfter(images, video_id)

\* The stop request s tears down the session of the last start request: the
\* request was accepted after that start, which was not yet torn down by
\* its own timer.
StopsSession(s) ==
    /\ stopLast
    /\ lastStart # 0
    /\ starts[lastStart].kind = "execute"
    /\ timers[lastStart] \notin {"cb_clear", "cb_kill", "cb_save", "cb_emit", "done"}

\* C28: the 'show_kiosk' event of a teardown carries the jump target when
\* the stop request gave one; otherwise, on timer expiry and on a stop
\* without target alike, it carries the item that follows the video in the
\* display order, the first item after the last.
TeardownCarriesNextItem ==
    [][show_kiosk' # show_kiosk =>
          LET e == show_kiosk'[Len(show_kiosk')] IN
          IF e.by = "auto_transition"
          THEN FollowsInOrder(e.start_image, starts[e.id].vid)
          ELSE IF stops[e.id].target # None
          THEN e.start_image = stops[e.id].target
          ELSE StopsSession(e.id) =>
                   FollowsInOrder(e.start_image, starts[lastStart].vid)]_vars

\* ---------------------------------------------------------------- C29

\* The launch thread of r has ended without a player: Popen raised.
SpawnFailed(r) ==
    /\ starts[r].kind = "execute"
    /\ starts[r].pc = "done"
    /\ "spawn" \notin Range(entryLog[r])

\* The player of r has exited right after it was spawned, before the
\* thread went on.
ExitedEarly(r) ==
    /\ starts[r].kind = "execute"
    /\ starts[r].pc = "playing"
    /\ r \notin procs

\* C29: when the player cannot be spawned, or exits right after it was
\* spawned, the orchestrator is idle again: no timer is armed, the
\* current video id is cleared, no 'video_playing' is emitted and no
\* player is started again for the same video.
FailedLaunchReturnsToIdle ==
    [][\A r \in Starts :
          /\ SpawnFailed(r)' =>
                /\ timers'[r] = "none"
                /\ current_video_id' = None
                /\ r \notin video_playing'
                /\ r \notin procs'
          /\ ExitedEarly(r) =>
                /\ timers'[r] = "none"
                /\ r \notin video_playing'
                /\ r \notin procs'
                /\ starts'[r].pc # "playing" => current_video_id' = None]_vars

\* ---------------------------------------------------------------- C30

\* The thread of r made a capture in this step.
Captured(r) == captures'[r] # captures[r]

\* C30: the capture of a thumbnail runs scrot at most 3 times, once plus
\* at most max_retries retries; a dark frame is deleted and the capture
\* retried only while fewer than max_retries retries were made, the third
\* frame being kept even if dark; 'thumbnail_generated' is emitted once,
\* by the step that keeps a frame; a failed scrot ends the thread with no
\* event, no retry and no file; and no capture touches the player or the
\* timer.
CaptureRetriesBounded ==
    [][\A r \in Starts :
          LET vid == starts[r].vid IN
          /\ captures'[r] <= max_retries + 1
          /\ thumbnail_generated'[r] <= 1
          /\ thumbnail_generated'[r] # thumbnail_generated[r] =>
                Captured(r) /\ vid \in thumbs' /\ starts'[r].pc = "done"
          /\ Captured(r) =>
                /\ starts[r].pc = "capture"
                /\ procs' = procs
                /\ timers' = timers
                /\ video_transition_timer' = video_transition_timer
          /\ Capture(r, "failed") =>
                /\ starts'[r].pc = "done"
                /\ thumbnail_generated' = thumbnail_generated
                /\ thumbs' = thumbs
          /\ Capture(r, "bright") =>
                /\ starts'[r].pc = "done"
                /\ thumbnail_generated'[r] = thumbnail_generated[r] + 1
                /\ vid \in thumbs'
          /\ Capture(r, "dark") =>
                IF captures[r] < max_retries
                THEN /\ starts'[r].pc = "capture"
                     /\ thumbnail_generated' = thumbnail_generated
                     /\ vid \notin thumbs'
                ELSE /\ starts'[r].pc = "done"
                     /\ thumbnail_generated'[r] = thumbnail_generated[r] + 1
                     /\ vid \in thumbs']_vars

\* C30 (witness): a video started without a thumbnail had two frames
\* discarded and the third kept, and the event was emitted.
CaptureRetriesBoundedWitness ==
    /\ starts[1].kind = "execute" /\ starts[1].pc = "done"
    /\ captures[1] = max_retries + 1
    /\ thumbnail_generated[1] = 1
    /\ starts[1].vid \in thumbs
    /\ 1 \in procs /\ timers[1] = "armed"

\* ---- playback status (SpecStatus)

\* C31: whenever the playback status reports playing = true, the reported
\* video id is the id of the video whose player process is running (the id
\* given to the start request that spawned it); whenever it reports
\* playing = false, the reported video id is null.
StatusNamesRunningVideo ==
    playback_status.answered =>
        /\ playback_status.playing =>
               playback_status.video_id \in playback_status.running
        /\ ~playback_status.playing => playback_status.video_id = None

\* ---- stored interval (SpecConfig)

\* C32: after any sequence of theme, atmosphere and day-scheduling
\* operations, whenever no atmosphere is active and day scheduling is
\* disabled, settings['interval'] equals the interval of the active theme.
StoredIntervalInSync ==
    (settings.active_atmosphere = None /\ ~settings.day_scheduling_enabled) =>
        settings.interval = settings.themes[settings.active_theme]

\* ---- the shared generator (SpecRace)

\* C33: when listing and reshuffle requests run concurrently, every listing
\* returns the order determined by its eligible set and the stored
\* shuffle_id, and every candidate test of a reshuffle computes the order of
\* its list under the candidate seed.
ShuffledAsSeeded ==
    /\ \A k \in 1..MaxLists :
          lists[k].pc \in {"reset", "done"} =>
              lists[k].answer = Shuffle(lists[k].items, lists[k].seed)
    /\ reshuffle.pc = "reset" =>
          reshuffle.test_images = Shuffle(reshuffle.images, reshuffle.new_shuffle_id)

\* ---- the list a reshuffle tests (SpecShuffle)

\* C34: the item list that POST /api/kiosk/reshuffle shuffles to test a
\* candidate seed is the list GET /api/images?enabled_only=true shuffles,
\* with the same elements in the same order before the shuffle, for every
\* configuration.
ReshuffleTestsServedList ==
    reshuffle.pc # "idle" => reshuffle.images = ListItems(settings, hour, TRUE)

\* ---- the displayed item (SpecKiosk)

\* C35: reporting the displayed item with POST /api/kiosk/current-image
\* clears the current video id only when the reported item is an image;
\* reporting the playing video's item name (its video id) leaves the
\* current video id set.
ReportOfVideoKeepsVideoId ==
    [][\A image_name \in ReportedNames :
          CurrentImagePost(image_name) =>
              IF image_name \in Range(Images) THEN current_video_id' = None
              ELSE current_video_id' = current_video_id]_vars

\* ---- configuration writes (SpecWrites)

\* The selection a switch writes.
Selection(s) ==
    <<s.active_theme, s.active_atmosphere, s.day_scheduling_enabled, s.shuffle_id>>

\* C36: once a theme, atmosphere or day-scheduling switch has returned
\* success, its change to active_theme, active_atmosphere,
\* day_scheduling_enabled and shuffle_id is never reverted by the write of
\* the whole settings document done by a video start, a video stop or a
\* timer expiry.
VideoWritersKeepSelection ==
    [][(\/ \E url \in {None, "url"}, images \in Listings : ExecuteStore(1, url, images)
        \/ AutoStore(1)
        \/ StopStore(1))
       => Selection(settings') = Selection(settings)]_vars

\* ---- rejected start requests (Spec)

\* C37: a start request rejected for a missing URL (400) leaves the
\* orchestrator unchanged: the current video id in memory, the persisted
\* current_video_id and the stored next item keep their values, no process
\* is spawned and no timer is armed.
RejectedStartChangesNothing ==
    [][\A r \in Starts, video_id \in Videos, images \in Listings :
          ExecuteMpv(r, video_id, None, images) =>
              UNCHANGED <<current_video_id, persisted_video_id, video_next_item,
                          procs, timers, video_transition_timer>>]_vars

\* ---- racing teardowns (Spec)

\* C38: each session teardown sends display clients one 'show_kiosk': when
\* the timer expiry of a session and a stop request with a jump target,
\* accepted during that session, race, the timer's callback does not emit
\* its next item next to the jump target that the stop thread emits.
TeardownSignalsOnce ==
    [][\A t \in Starts :
          AutoShowKiosk(t) =>
              ~ \E s \in Stops :
                    /\ stops[s].target # None
                    /\ stops[s].pc \in {"k_clear", "k_kill", "k_emit", "done"}
                    /\ stopLast
                    /\ lastStart = t]_vars

\* ---- thumbnails of videos no longer playing (Spec)

\* C39: a thumbnail stored for video V is captured only while V's player
\* process is the one running: no pass of a capture loop takes a screen
\* capture, and none emits 'thumbnail_generated', while the player its
\* thread spawned is gone or another one runs.
CaptureOnlyWhilePlaying ==
    [][\A r \in Starts :
          (captures'[r] # captures[r] \/ thumbnail_generated'[r] # thumbnail_generated[r])
              => procs = {r}]_vars

\* ---- active theme and atmosphere (SpecConfig)

\* C40: after any sequence of create, delete and activate operations on
\* themes and atmospheres and of day-scheduling enable, disable and toggle
\* operations, active_theme names an existing theme and active_atmosphere
\* is unset or names an existing atmosphere.
ActiveNamesExist ==
    /\ settings.active_theme \in ThemeNames
    /\ settings.themes[settings.active_theme] # 0
    /\ settings.active_atmosphere # None =>
          /\ settings.active_atmosphere \in AtmosphereNames
          /\ settings.atmospheres[settings.active_atmosphere] # 0

\* The active atmosphere was deleted by the last request.
ActiveNamesExistWitness ==
    /\ cfgOp.op = "delete_atmosphere"
    /\ cfgOp.status = 200
    /\ cfgOp.atmosphere_before = "A1"
    /\ settings.atmospheres["A1"] = 0
    /\ settings.active_atmosphere = None

====
